---------------------------- MODULE Spec2Model ----------------------------
(***************************************************************************)
(* A model of the reliefweb client library: the Query builder              *)
(* (params.rs), the query encoder QueryParams::apply_to_url, the client's  *)
(* request construction (client.rs) and the resource endpoints' list and   *)
(* get (endpoint.rs).                                                      *)
(*                                                                         *)
(* Strings are TLA+ strings of printable ASCII characters.  A URL is a     *)
(* record of its serialized components; its query component is the        *)
(* serialized (percent-encoded) query string, exactly the text that        *)
(* reqwest::Url holds after the '?', or None when the URL has no query.    *)
(***************************************************************************)
EXTENDS Integers, Sequences, FiniteSets, TLC

(***************************************************************************)
(* Option<T>: None, or Some(v).                                            *)
(***************************************************************************)
None == [some |-> FALSE]

Some(v) == [some |-> TRUE, val |-> v]

is_some(o) == o.some

(***************************************************************************)
(* Characters and bytes.  Ascii lists the printable ASCII characters in    *)
(* code order, starting at code 32 (the space).  The grave accent (code    *)
(* 96) cannot be written in a string of this language: a tab holds its     *)
(* place, and no input of the model contains either.                       *)
(***************************************************************************)
Ascii == " !\"#$%&'()*+,-./0123456789:;<=>?@ABCDEFGHIJKLMNOPQRSTUVWXYZ[\\]^_\tabcdefghijklmnopqrstuvwxyz{|}~"

HexDigits == "0123456789ABCDEF"

CharAt(s, i) == SubSeq(s, i, i)

\* The set of the characters of a string.
Chars(table) == {CharAt(table, i) : i \in 1..Len(table)}

Contains(table, c) == \E i \in 1..Len(table) : CharAt(table, i) = c

\* The position of each character in a table without repetition.
IndexTable(table) ==
    [c \in Chars(table) |-> CHOOSE i \in 1..Len(table) : CharAt(table, i) = c]

AsciiIndex == IndexTable(Ascii)

HexIndex == IndexTable(HexDigits)

LowerHexIndex == IndexTable("abcdef")

Byte(c) == AsciiIndex[c] + 31

CharOf(b) == CharAt(Ascii, b - 31)

RECURSIVE FindChar(_, _, _)
\* The least position >= i of a character of s that belongs to stops,
\* or Len(s) + 1 when there is none.
FindChar(s, stops, i) ==
    IF i > Len(s) THEN Len(s) + 1
    ELSE IF Contains(stops, CharAt(s, i)) THEN i
    ELSE FindChar(s, stops, i + 1)


(***************************************************************************)
(* application/x-www-form-urlencoded, as the url crate implements it       *)
(* behind Url::query_pairs_mut().append_pair and Url::query_pairs.         *)
(***************************************************************************)
Unreserved == Chars("*-._0123456789ABCDEFGHIJKLMNOPQRSTUVWXYZabcdefghijklmnopqrstuvwxyz")

percent_encode_byte(b) ==
    "%" \o CharAt(HexDigits, (b \div 16) + 1) \o CharAt(HexDigits, (b % 16) + 1)

RECURSIVE byte_serialize_plus_kept(_)
\* byte_serialize with '+' taken for a character that needs no escape.
byte_serialize_plus_kept(s) ==
    IF s = "" THEN ""
    ELSE LET c == CharAt(s, 1)
             e == IF c \in Unreserved \cup {"+"} THEN c
                  ELSE IF c = " " THEN "+"
                  ELSE percent_encode_byte(Byte(c))
         IN  e \o byte_serialize_plus_kept(SubSeq(s, 2, Len(s)))

RECURSIVE byte_serialize(_)
\* A letter, a digit or one of * - . _ stands for itself, a space becomes
\* '+', every other byte becomes %XX.
byte_serialize(s) ==
    IF s = "" THEN ""
    ELSE LET c == CharAt(s, 1)
             e == IF c \in Unreserved THEN c
                  ELSE IF c = " " THEN "+"
                  ELSE percent_encode_byte(Byte(c))
         IN  e \o byte_serialize(SubSeq(s, 2, Len(s)))

IsHexDigit(c) == c \in DOMAIN HexIndex \cup DOMAIN LowerHexIndex

HexVal(c) == IF c \in DOMAIN HexIndex THEN HexIndex[c] - 1 ELSE LowerHexIndex[c] + 9

RECURSIVE decode(_)
\* '+' becomes a space and %XY, with X and Y hexadecimal digits, the byte
\* XY; a '%' not followed by two hexadecimal digits stands for itself.
\* Only printable ASCII bytes are decoded: the serializer above emits no
\* other escape for the printable ASCII inputs of this model.
decode(s) ==
    IF s = "" THEN ""
    ELSE LET c == CharAt(s, 1)
         IN  IF c = "+" THEN " " \o decode(SubSeq(s, 2, Len(s)))
             ELSE IF /\ c = "%"
                     /\ Len(s) >= 3
                     /\ IsHexDigit(CharAt(s, 2))
                     /\ IsHexDigit(CharAt(s, 3))
                     /\ 16 * HexVal(CharAt(s, 2)) + HexVal(CharAt(s, 3)) \in 32..126
                  THEN CharOf(16 * HexVal(CharAt(s, 2)) + HexVal(CharAt(s, 3)))
                           \o decode(SubSeq(s, 4, Len(s)))
             ELSE c \o decode(SubSeq(s, 2, Len(s)))

RECURSIVE parse(_)
\* The (name, value) pairs of a serialized query string: the pieces between
\* '&' that are not empty, each cut at its first '=' and decoded.
parse(input) ==
    IF input = "" THEN <<>>
    ELSE LET amp      == FindChar(input, "&", 1)
             sequence == SubSeq(input, 1, amp - 1)
             rest     == SubSeq(input, amp + 1, Len(input))
             eq       == FindChar(sequence, "=", 1)
             name     == SubSeq(sequence, 1, eq - 1)
             value    == SubSeq(sequence, eq + 1, Len(sequence))
         IN  IF sequence = "" THEN parse(rest)
             ELSE <<<<decode(name), decode(value)>>>> \o parse(rest)

(***************************************************************************)
(* A Url: scheme, host, port, path, query and fragment.  port is an        *)
(* Option<u16>, query and fragment are Option<String>.                     *)
(***************************************************************************)
\* Url::query_pairs: the decoded pairs of the URL's query, none without one.
query_pairs(url) == IF is_some(url.query) THEN parse(url.query.val) ELSE <<>>

\* query_pairs_mut that starts from an emptied query string.
query_pairs_mut_clear(url) == [url EXCEPT !.query = Some("")]

\* Url::query_pairs_mut(): a URL without a query gets an empty one.
query_pairs_mut(url) == IF is_some(url.query) THEN url ELSE [url EXCEPT !.query = Some("")]

\* Serializer::append_pair(name, value) on the query of url: '&' separates
\* the pair from what the query already holds.
append_pair(url, name, value) ==
    LET old == query_pairs_mut(url).query.val
        sep == IF Len(old) > 0 THEN "&" ELSE ""
    IN  [url EXCEPT !.query =
            Some(old \o sep \o byte_serialize(name) \o "=" \o byte_serialize(value))]


(***************************************************************************)
(* params.rs: the enumerations and their Display implementations.          *)
(***************************************************************************)
QueryProfile == {"QueryProfile::Minimal", "QueryProfile::Full", "QueryProfile::List"}

QueryProfile_to_string(p) ==
    CASE p = "QueryProfile::Minimal" -> "minimal"
      [] p = "QueryProfile::Full"    -> "full"
      [] p = "QueryProfile::List"    -> "list"

QueryPreset == {"QueryPreset::Minimal", "QueryPreset::Latest", "QueryPreset::Analysis"}

QueryPreset_to_string(p) ==
    CASE p = "QueryPreset::Minimal"  -> "minimal"
      [] p = "QueryPreset::Latest"   -> "latest"
      [] p = "QueryPreset::Analysis" -> "analysis"

FilterOperator == {"FilterOperator::OR", "FilterOperator::AND"}

FilterOperator_to_string(op) ==
    CASE op = "FilterOperator::AND" -> "AND"
      [] op = "FilterOperator::OR"  -> "OR"

SortDirection == {"SortDirection::Asc", "SortDirection::Desc"}

\* Display for SortDirection in capitals.
SortDirection_to_string_upper(d) ==
    IF d = "SortDirection::Asc" THEN "ASC" ELSE "DESC"

SortDirection_to_string(d) ==
    CASE d = "SortDirection::Asc"  -> "asc"
      [] d = "SortDirection::Desc" -> "desc"

\* u32::to_string: the decimal digits of the value.
u32_to_string(n) == ToString(n)

(***************************************************************************)
(* params.rs: QueryParams and its builder methods.  QueryQuery is          *)
(* [value, fields, operator], QueryFilter is [field, value, operator,      *)
(* negate], SortDescriptor is [field, direction].                          *)
(***************************************************************************)
QueryParams_new ==
    [query   |-> <<>>,
     filter  |-> <<>>,
     verbose |-> None,
     limit   |-> None,
     offset  |-> None,
     sort    |-> <<>>,
     profile |-> None,
     preset  |-> None,
     include |-> <<>>,
     exclude |-> <<>>]

QueryParams_query(self, q) == [self EXCEPT !.query = Append(@, q)]

QueryParams_queries(self, queries) == [self EXCEPT !.query = @ \o queries]

QueryParams_filter(self, f) == [self EXCEPT !.filter = Append(@, f)]

QueryParams_filters(self, filters) == [self EXCEPT !.filter = @ \o filters]

QueryParams_verbose(self, v) == [self EXCEPT !.verbose = Some(v)]

QueryParams_limit(self, l) == [self EXCEPT !.limit = Some(l)]

QueryParams_offset(self, o) == [self EXCEPT !.offset = Some(o)]

QueryParams_sort(self, sort) == [self EXCEPT !.sort = @ \o sort]

QueryParams_profile(self, profile) == [self EXCEPT !.profile = Some(profile)]

QueryParams_preset(self, preset) == [self EXCEPT !.preset = Some(preset)]

\* include that keeps the paths only once each: a path the Query already
\* includes is not added again.
QueryParams_include_once(self, include) ==
    [self EXCEPT !.include =
        @ \o SelectSeq(include, LAMBDA x : \A i \in 1..Len(@) : @[i] # x)]

QueryParams_include(self, include) == [self EXCEPT !.include = @ \o include]

QueryParams_exclude(self, exclude) == [self EXCEPT !.exclude = @ \o exclude]


(***************************************************************************)
(* params.rs: QueryParams::apply_to_url, block by block.  Sequences are    *)
(* indexed from 1 here; the index written into a key is the 0-based        *)
(* position that enumerate() yields.                                       *)
(***************************************************************************)
\* apply_scalars with an empty verbose pair written for an absent verbose.
apply_scalars_placeholder(self, url) ==
    LET u1 == append_pair(url, "verbose",
                  IF is_some(self.verbose) THEN (IF self.verbose.val THEN "1" ELSE "0") ELSE "")
        u2 == IF is_some(self.limit)
              THEN append_pair(u1, "limit", u32_to_string(self.limit.val))
              ELSE u1
        u3 == IF is_some(self.offset)
              THEN append_pair(u2, "offset", u32_to_string(self.offset.val))
              ELSE u2
        u4 == IF is_some(self.profile)
              THEN append_pair(u3, "profile", QueryProfile_to_string(self.profile.val))
              ELSE u3
    IN  IF is_some(self.preset)
        THEN append_pair(u4, "preset", QueryPreset_to_string(self.preset.val))
        ELSE u4

\* apply_scalars with a limit above 1000 written as 1000.
apply_scalars_clamped(self, url) ==
    LET u1 == IF is_some(self.verbose)
              THEN append_pair(url, "verbose", IF self.verbose.val THEN "1" ELSE "0")
              ELSE url
        u2 == IF is_some(self.limit)
              THEN append_pair(u1, "limit",
                       u32_to_string(IF self.limit.val > 1000 THEN 1000 ELSE self.limit.val))
              ELSE u1
        u3 == IF is_some(self.offset)
              THEN append_pair(u2, "offset", u32_to_string(self.offset.val))
              ELSE u2
        u4 == IF is_some(self.profile)
              THEN append_pair(u3, "profile", QueryProfile_to_string(self.profile.val))
              ELSE u3
    IN  IF is_some(self.preset)
        THEN append_pair(u4, "preset", QueryPreset_to_string(self.preset.val))
        ELSE u4

\* verbose, limit, offset, profile, preset: one pair each, when present.
apply_scalars(self, url) ==
    LET u1 == IF is_some(self.verbose)
              THEN append_pair(url, "verbose", IF self.verbose.val THEN "1" ELSE "0")
              ELSE url
        u2 == IF is_some(self.limit)
              THEN append_pair(u1, "limit", u32_to_string(self.limit.val))
              ELSE u1
        u3 == IF is_some(self.offset)
              THEN append_pair(u2, "offset", u32_to_string(self.offset.val))
              ELSE u2
        u4 == IF is_some(self.profile)
              THEN append_pair(u3, "profile", QueryProfile_to_string(self.profile.val))
              ELSE u3
    IN  IF is_some(self.preset)
        THEN append_pair(u4, "preset", QueryPreset_to_string(self.preset.val))
        ELSE u4

RECURSIVE apply_each(_, _, _, _)
\* for v in &values { qp.append_pair(key, v) }, from position i on.
apply_each(url, key, values, i) ==
    IF i > Len(values) THEN url
    ELSE apply_each(append_pair(url, key, values[i]), key, values, i + 1)

\* apply_fields with the exclude loop run before the include loop.
apply_fields_exclude_first(self, url) ==
    apply_each(apply_each(url, "fields[exclude][]", self.exclude, 1),
               "fields[include][]", self.include, 1)

\* The include loop, then the exclude loop.
apply_fields(self, url) ==
    apply_each(apply_each(url, "fields[include][]", self.include, 1),
               "fields[exclude][]", self.exclude, 1)

RECURSIVE apply_query_fields(_, _, _, _)
\* for (j, field) in q.fields.iter().enumerate(), from position j on.
apply_query_fields(url, prefix, fields, j) ==
    IF j > Len(fields) THEN url
    ELSE apply_query_fields(
             append_pair(url, prefix \o "[fields][" \o ToString(j - 1) \o "]", fields[j]),
             prefix, fields, j + 1)

\* apply_query with the clause numbered from 1.
apply_query_one_based(url, i, q) ==
    LET prefix == "query[" \o ToString(i + 1) \o "]"
        u1     == append_pair(url, prefix \o "[value]", q.value)
        u2     == apply_query_fields(u1, prefix, q.fields, 1)
    IN  IF is_some(q.operator)
        THEN append_pair(u2, prefix \o "[operator]", FilterOperator_to_string(q.operator.val))
        ELSE u2

\* The body of the query loop for the clause q at 0-based position i.
apply_query(url, i, q) ==
    LET prefix == "query[" \o ToString(i) \o "]"
        u1     == append_pair(url, prefix \o "[value]", q.value)
        u2     == apply_query_fields(u1, prefix, q.fields, 1)
    IN  IF is_some(q.operator)
        THEN append_pair(u2, prefix \o "[operator]", FilterOperator_to_string(q.operator.val))
        ELSE u2

RECURSIVE apply_queries_from(_, _, _)
apply_queries_from(url, query, i) ==
    IF i > Len(query) THEN url
    ELSE apply_queries_from(apply_query(url, i - 1, query[i]), query, i + 1)

\* for (i, q) in self.query.iter().enumerate()
apply_queries(self, url) == apply_queries_from(url, self.query, 1)

\* top_op with the operator of the last filter that has one.
top_op_last(filter) ==
    LET last == CHOOSE i \in 1..Len(filter) :
                    /\ is_some(filter[i].operator)
                    /\ \A k \in (i + 1)..Len(filter) : ~is_some(filter[k].operator)
    IN  FilterOperator_to_string(filter[last].operator.val)

\* self.filter.iter().filter_map(|f| f.operator.as_ref()).next().unwrap():
\* the operator of the first filter that has one.
top_op(filter) ==
    LET first == CHOOSE i \in 1..Len(filter) :
                     /\ is_some(filter[i].operator)
                     /\ \A k \in 1..(i - 1) : ~is_some(filter[k].operator)
    IN  FilterOperator_to_string(filter[first].operator.val)

\* apply_filter_operator that skips the top-level pair of a single filter.
apply_filter_operator_many(self, url) ==
    IF Len(self.filter) > 1 /\ \E i \in 1..Len(self.filter) : is_some(self.filter[i].operator)
    THEN append_pair(url, "filter[operator]", top_op(self.filter))
    ELSE url

\* The top-level operator pair, emitted when any filter carries an operator.
apply_filter_operator(self, url) ==
    IF \E i \in 1..Len(self.filter) : is_some(self.filter[i].operator)
    THEN append_pair(url, "filter[operator]", top_op(self.filter))
    ELSE url

\* apply_condition with the value pair written before the field pair.
apply_condition_value_first(url, i, f) ==
    LET prefix == "filter[conditions][" \o ToString(i) \o "]"
        u1     == append_pair(url, prefix \o "[value][]", f.value)
        u2     == append_pair(u1, prefix \o "[field]", f.field)
        u3     == IF f.negate THEN append_pair(u2, prefix \o "[negate]", "1") ELSE u2
    IN  IF is_some(f.operator)
        THEN append_pair(u3, prefix \o "[operator]", FilterOperator_to_string(f.operator.val))
        ELSE u3

\* apply_condition with negate written for every filter, as 1 or 0.
apply_condition_negate_always(url, i, f) ==
    LET prefix == "filter[conditions][" \o ToString(i) \o "]"
        u1     == append_pair(url, prefix \o "[field]", f.field)
        u2     == append_pair(u1, prefix \o "[value][]", f.value)
        u3     == append_pair(u2, prefix \o "[negate]", IF f.negate THEN "1" ELSE "0")
    IN  IF is_some(f.operator)
        THEN append_pair(u3, prefix \o "[operator]", FilterOperator_to_string(f.operator.val))
        ELSE u3

\* The body of the conditions loop for the filter f at 0-based position i.
apply_condition(url, i, f) ==
    LET prefix == "filter[conditions][" \o ToString(i) \o "]"
        u1     == append_pair(url, prefix \o "[field]", f.field)
        u2     == append_pair(u1, prefix \o "[value][]", f.value)
        u3     == IF f.negate THEN append_pair(u2, prefix \o "[negate]", "1") ELSE u2
    IN  IF is_some(f.operator)
        THEN append_pair(u3, prefix \o "[operator]", FilterOperator_to_string(f.operator.val))
        ELSE u3

RECURSIVE apply_conditions_from(_, _, _)
apply_conditions_from(url, filter, i) ==
    IF i > Len(filter) THEN url
    ELSE apply_conditions_from(apply_condition(url, i - 1, filter[i]), filter, i + 1)

\* apply_filters that leaves out the per-condition operator of the filter
\* whose operator went into the top-level pair.
apply_filters_remaining(self, url) ==
    LET has   == {i \in 1..Len(self.filter) : is_some(self.filter[i].operator)}
        first == CHOOSE i \in has : \A k \in has : i <= k
        rest  == [i \in 1..Len(self.filter) |->
                     IF has # {} /\ i = first
                     THEN [self.filter[i] EXCEPT !.operator = None]
                     ELSE self.filter[i]]
    IN  IF self.filter # <<>>
        THEN apply_conditions_from(apply_filter_operator(self, url), rest, 1)
        ELSE url

\* if !self.filter.is_empty() { top-level operator; conditions }
apply_filters(self, url) ==
    IF self.filter # <<>>
    THEN apply_conditions_from(apply_filter_operator(self, url), self.filter, 1)
    ELSE url

RECURSIVE apply_sort_from(_, _, _)
apply_sort_from(url, sort, i) ==
    IF i > Len(sort) THEN url
    ELSE apply_sort_from(
             append_pair(url, "sort[]",
                 sort[i].field \o ":" \o SortDirection_to_string(sort[i].direction)),
             sort, i + 1)

\* for s in &self.sort
apply_sort(self, url) == apply_sort_from(url, self.sort, 1)

\* apply_to_url with the sort loop placed before the filter block.
apply_to_url_sort_early(self, url) ==
    apply_filters(self,
        apply_sort(self,
            apply_queries(self,
                apply_fields(self,
                    apply_scalars(self, query_pairs_mut(url))))))

\* QueryParams::apply_to_url(&self, url: &mut Url): the URL after the call.
apply_to_url(self, url) ==
    apply_sort(self,
        apply_filters(self,
            apply_queries(self,
                apply_fields(self,
                    apply_scalars(self, query_pairs_mut(url))))))


(***************************************************************************)
(* reqwest::Url (the url crate) as client.rs and endpoint.rs use it:       *)
(* Url::parse of "<scheme>://<domain>/<version>/" and Url::join of a       *)
(* relative reference "<resource>" or "<resource>/<id>".  A Url is         *)
(* [scheme, host, path, query, fragment], path being the sequence of its   *)
(* segments.                                                               *)
(***************************************************************************)
RECURSIVE percent_encode(_, _)
\* utf8_percent_encode: the characters of `set` become %XX.
percent_encode(s, set) ==
    IF s = "" THEN ""
    ELSE LET c == CharAt(s, 1)
         IN  (IF Contains(set, c) THEN percent_encode_byte(Byte(c)) ELSE c)
                 \o percent_encode(SubSeq(s, 2, Len(s)), set)

\* The percent-encode sets of a special (http, https) URL's components,
\* restricted to printable ASCII.
FRAGMENT_SET == " \"<>"

PATH_SET == " \"<>#?{}"

SPECIAL_QUERY_SET == " \"<>#'"

RECURSIVE trim_start(_)
trim_start(s) == IF s # "" /\ CharAt(s, 1) = " " THEN trim_start(SubSeq(s, 2, Len(s))) ELSE s

RECURSIVE trim_end(_)
trim_end(s) ==
    IF s # "" /\ CharAt(s, Len(s)) = " " THEN trim_end(SubSeq(s, 1, Len(s) - 1)) ELSE s

\* The parser drops leading and trailing spaces of its input.
trim(s) == trim_end(trim_start(s))

\* A path without its last segment.
shorten(segments) ==
    IF segments = <<>> THEN <<>> ELSE SubSeq(segments, 1, Len(segments) - 1)

RECURSIVE parse_path(_, _)
\* The path state of the URL parser: `input` is cut at '/' and '\'; each
\* segment is percent-encoded, then a double-dot segment (two dots, each
\* written '.' or as its escape %2e in either case) removes the last
\* segment, a single-dot segment adds none, any other segment is appended;
\* a path ending in a dot segment or a separator ends with an empty segment.
parse_path(segments, input) ==
    LET double == {"..", "%2e%2e", "%2e%2E", "%2E%2e", "%2E%2E",
                   "%2e.", "%2E.", ".%2e", ".%2E"}
        single == {".", "%2e", "%2E"}
        cut    == FindChar(input, "/\\", 1)
        seg    == percent_encode(SubSeq(input, 1, cut - 1), PATH_SET)
        last   == cut > Len(input)
        next   == IF seg \in double
                  THEN (IF last THEN Append(shorten(segments), "") ELSE shorten(segments))
                  ELSE IF seg \in single
                  THEN (IF last THEN Append(segments, "") ELSE segments)
                  ELSE Append(segments, seg)
    IN  IF last THEN next
        ELSE parse_path(next, SubSeq(input, cut + 1, Len(input)))

\* The query and the fragment a reference carries after its path.
reference_path(t) == SubSeq(t, 1, FindChar(t, "?#", 1) - 1)

reference_query(t) ==
    LET h == FindChar(t, "#", 1)
        b == SubSeq(t, 1, h - 1)
        q == FindChar(b, "?", 1)
    IN  IF q <= Len(b)
        THEN Some(percent_encode(SubSeq(b, q + 1, Len(b)), SPECIAL_QUERY_SET))
        ELSE None

reference_fragment(t) ==
    LET h == FindChar(t, "#", 1)
    IN  IF h <= Len(t)
        THEN Some(percent_encode(SubSeq(t, h + 1, Len(t)), FRAGMENT_SET))
        ELSE None

\* Url::join(&self, input) for a reference of printable ASCII characters
\* that has no scheme (no ':' before its first '/', '\', '?' or '#', or a
\* first character that is no letter) and does not start with two
\* separators: scheme and host are the base's.  A reference that starts
\* with one '/' or '\' replaces the base's path; one with an empty path
\* keeps the base's path, and the base's query too when it has no query of
\* its own; any other path is resolved against the base's path without its
\* last segment.  The fragment is the reference's.
Url_join(base, input) ==
    LET t == trim(input)
        p == reference_path(t)
        q == reference_query(t)
    IN  [scheme   |-> base.scheme,
         host     |-> base.host,
         port     |-> base.port,
         path     |-> IF p = "" THEN base.path
                      ELSE IF CharAt(p, 1) \in {"/", "\\"}
                      THEN parse_path(<<>>, SubSeq(p, 2, Len(p)))
                      ELSE parse_path(shorten(base.path), p),
         query    |-> IF p = "" /\ ~is_some(q) THEN base.query ELSE q,
         fragment |-> reference_fragment(t)]

RECURSIVE path_string(_)
\* A path as Url::path() gives it: every segment preceded by '/'.
path_string(segments) ==
    IF segments = <<>> THEN ""
    ELSE "/" \o Head(segments) \o path_string(Tail(segments))

\* Url::as_str().
Url_as_str(url) ==
    url.scheme \o "://" \o url.host
        \o (IF is_some(url.port) THEN ":" \o ToString(url.port.val) ELSE "")
        \o path_string(url.path)
        \o (IF is_some(url.query) THEN "?" \o url.query.val ELSE "")
        \o (IF is_some(url.fragment) THEN "#" \o url.fragment.val ELSE "")

\* The characters a host may not hold (after percent-decoding).
FORBIDDEN_HOST == " #%/:<>?@[\\]^|"

IsDigit(c) == c \in Chars("0123456789")

IsAlpha(c) == c \in Chars("ABCDEFGHIJKLMNOPQRSTUVWXYZabcdefghijklmnopqrstuvwxyz")

RECURSIVE to_ascii_lowercase(_)
to_ascii_lowercase(s) ==
    IF s = "" THEN ""
    ELSE LET c == CharAt(s, 1)
         IN  (IF c \in Chars("ABCDEFGHIJKLMNOPQRSTUVWXYZ") THEN CharOf(Byte(c) + 32) ELSE c)
                 \o to_ascii_lowercase(SubSeq(s, 2, Len(s)))

\* The scheme of an input: it starts with a letter and goes on with
\* letters, digits, '+', '-' and '.' up to the ':'.
scheme_valid(scheme) ==
    /\ scheme # ""
    /\ IsAlpha(CharAt(scheme, 1))
    /\ \A i \in 1..Len(scheme) :
          IsAlpha(CharAt(scheme, i)) \/ IsDigit(CharAt(scheme, i))
              \/ CharAt(scheme, i) \in {"+", "-", "."}

\* The port a special scheme implies.
default_port(scheme) ==
    CASE scheme \in {"http", "ws"}   -> Some(80)
      [] scheme \in {"https", "wss"} -> Some(443)
      [] scheme = "ftp"              -> Some(21)
      [] OTHER                       -> None

RECURSIVE parse_decimal(_, _)
\* The number a string of decimal digits writes, read from the left onto
\* acc, as the pair <<n \div 65536, n % 65536>>; the first component is
\* 65536 for every number that does not fit 32 bits.
parse_decimal(s, acc) ==
    IF s = "" THEN acc
    ELSE LET lo == acc[2] * 10 + (Byte(CharAt(s, 1)) - 48)
             hi == acc[1] * 10 + (lo \div 65536)
         IN  parse_decimal(SubSeq(s, 2, Len(s)),
                           <<IF hi > 65535 THEN 65536 ELSE hi, lo % 65536>>)

\* parse_port on the text between the ':' after the host and the path: an
\* error on a character that is no digit and on a number above 65535; no
\* port when the text is empty or writes the scheme's default port.
parse_port(text, scheme) ==
    LET n == parse_decimal(text, <<0, 0>>)
    IN  IF \E i \in 1..Len(text) : ~IsDigit(CharAt(text, i)) THEN [ok |-> FALSE]
        ELSE IF n[1] > 0 THEN [ok |-> FALSE]
        ELSE IF text = "" \/ Some(n[2]) = default_port(scheme)
        THEN [ok |-> TRUE, val |-> None]
        ELSE [ok |-> TRUE, val |-> Some(n[2])]

RECURSIVE split_dots(_)
\* The labels of a host, cut at its dots.
split_dots(s) ==
    LET d == FindChar(s, ".", 1)
    IN  IF d > Len(s) THEN <<s>>
        ELSE <<SubSeq(s, 1, d - 1)>> \o split_dots(SubSeq(s, d + 1, Len(s)))

\* The parts of a host for the IPv4 parser: input.split('.'), and a last
\* part that is empty is popped (no part is left of the empty input).
ipv4_parts(host) ==
    LET parts == split_dots(host)
    IN  IF parts[Len(parts)] = ""
        THEN SubSeq(parts, 1, Len(parts) - 1) ELSE parts

IsDecimal(label) == label # "" /\ \A i \in 1..Len(label) : IsDigit(CharAt(label, i))

RECURSIVE parse_radix(_, _, _)
\* u32::from_str_radix(s, r) for a string of digits of the radix r, read
\* from the left onto acc, as the pair <<n \div 65536, n % 65536>>; the
\* first component is 65536 for every number that does not fit 32 bits.
parse_radix(s, r, acc) ==
    IF s = "" THEN acc
    ELSE LET lo == acc[2] * r + HexVal(CharAt(s, 1))
             hi == acc[1] * r + (lo \div 65536)
         IN  parse_radix(SubSeq(s, 2, Len(s)), r,
                         <<IF hi > 65535 THEN 65536 ELSE hi, lo % 65536>>)

\* parse_ipv4number: "0x" or "0X" starts a hexadecimal number, any other
\* '0' before more characters an octal one, the rest is decimal; an error
\* for an empty part and for a character that is no digit of the radix;
\* the prefix alone is 0.  The number is the pair of parse_radix (65536
\* first when it overflows).
parse_ipv4number(part) ==
    LET r      == IF Len(part) >= 2 /\ SubSeq(part, 1, 2) \in {"0x", "0X"} THEN 16
                  ELSE IF Len(part) >= 2 /\ CharAt(part, 1) = "0" THEN 8
                  ELSE 10
        digits == IF r = 16 THEN SubSeq(part, 3, Len(part))
                  ELSE IF r = 8 THEN SubSeq(part, 2, Len(part))
                  ELSE part
    IN  IF part = "" THEN [ok |-> FALSE]
        ELSE IF \E i \in 1..Len(digits) :
                   \/ ~IsHexDigit(CharAt(digits, i))
                   \/ HexVal(CharAt(digits, i)) >= r
        THEN [ok |-> FALSE]
        ELSE [ok |-> TRUE, val |-> parse_radix(digits, r, <<0, 0>>)]

\* ends_in_a_number: the last part, or the one before it when the last is
\* empty (false when there is none), is a string of decimal digits or a
\* number that parse_ipv4number reads.
ends_in_a_number(host) ==
    LET parts == split_dots(host)
        n     == Len(parts)
        last  == IF parts[n] # "" THEN parts[n] ELSE parts[n - 1]
    IN  IF parts[n] = "" /\ n = 1 THEN FALSE
        ELSE IsDecimal(last) \/ parse_ipv4number(last).ok

\* The four bytes of a number of 32 bits, the most significant first.
octets(n) == <<n[1] \div 256, n[1] % 256, n[2] \div 256, n[2] % 256>>

\* parse_ipv4addr, for an input that is not empty (on "" the code panics,
\* no part being left; Host::parse does not call it then): at most four
\* parts, each a number that parse_ipv4number reads and that fits 32 bits,
\* all but the last at most 255, the last one filling the bytes that are
\* left; the address is written as four decimal numbers.
parse_ipv4addr(host) ==
    LET parts   == ipv4_parts(host)
        n       == Len(parts)
        parsed  == [i \in 1..n |-> parse_ipv4number(parts[i])]
        numbers == [i \in 1..n |-> parsed[i].val]
        last    == octets(numbers[n])
        address == [i \in 1..4 |-> IF i < n THEN numbers[i][2] ELSE last[i]]
    IN  IF \/ n > 4
           \/ \E i \in 1..n : ~parsed[i].ok
        THEN [ok |-> FALSE]
        ELSE IF \/ \E i \in 1..n : numbers[i][1] > 65535
                \/ \E i \in 1..(n - 1) : numbers[i][1] > 0 \/ numbers[i][2] > 255
                \/ \E i \in 1..(n - 1) : last[i] > 0
        THEN [ok |-> FALSE]
        ELSE [ok  |-> TRUE,
              val |-> ToString(address[1]) \o "." \o ToString(address[2]) \o "."
                          \o ToString(address[3]) \o "." \o ToString(address[4])]

\* Host::parse for a special scheme and a host of printable ASCII
\* characters without '%' and brackets, none of whose labels is a Punycode
\* label with text after its prefix "xn--" (Punycode is not decoded): its
\* letters are lower-cased; an error when a label is the bare prefix
\* "xn--" (domain_to_ascii refuses it), when the host is empty and when it
\* holds a forbidden character; a host that ends in a number is an IPv4
\* address.
Host_parse(input) ==
    LET host   == to_ascii_lowercase(input)
        labels == split_dots(host)
    IN  IF \E i \in 1..Len(labels) : labels[i] = "xn--"
        THEN [ok |-> FALSE]
        ELSE IF host = "" THEN [ok |-> FALSE]
        ELSE IF \E i \in 1..Len(host) : Contains(FORBIDDEN_HOST, CharAt(host, i))
        THEN [ok |-> FALSE]
        ELSE IF ends_in_a_number(host) THEN parse_ipv4addr(host)
        ELSE [ok |-> TRUE, val |-> host]

RECURSIVE skip_slashes(_)
\* After "<scheme>:" the parser of a special scheme passes every '/' and
\* '\' that precedes the authority.
skip_slashes(s) ==
    IF s # "" /\ CharAt(s, 1) \in {"/", "\\"} THEN skip_slashes(SubSeq(s, 2, Len(s))) ELSE s

\* Parser::after_double_slash for a special scheme and an authority without
\* '@' (no credentials): `rest` holds the authority (host and port), which
\* ends at the first '/', '\', '?' or '#', then the path, the query and the
\* fragment.  An error when the host is empty or not valid and when the
\* port is not valid.
after_double_slash(sch, rest) ==
    LET stop      == FindChar(rest, "/?#\\", 1)
        authority == SubSeq(rest, 1, stop - 1)
        colon     == FindChar(authority, ":", 1)
        host      == Host_parse(SubSeq(authority, 1, colon - 1))
        port      == parse_port(SubSeq(authority, colon + 1, Len(authority)), sch)
        tail      == SubSeq(rest, stop, Len(rest))
    IN  IF colon = 1 \/ authority = "" THEN [ok |-> FALSE]
        ELSE IF ~host.ok THEN [ok |-> FALSE]
        ELSE IF ~port.ok THEN [ok |-> FALSE]
        ELSE [ok  |-> TRUE,
              val |-> [scheme   |-> sch,
                       host     |-> host.val,
                       port     |-> port.val,
                       path     |-> parse_path(<<>>, SubSeq(reference_path(tail), 2,
                                                   Len(reference_path(tail)))),
                       query    |-> reference_query(tail),
                       fragment |-> reference_fragment(tail)]]

\* The parser after "<scheme>:" of a special scheme: every '/' and '\' that
\* follows is passed, then comes the authority.
parse_after_scheme(sch, input) == after_double_slash(sch, skip_slashes(input))

\* Url::parse of format!("{scheme}://{domain}/{version}/"), for a scheme
\* argument without ':' whose lower-case form is http, https, ws, wss or ftp
\* when it is valid, and a domain argument without '@', '%' and brackets
\* (no credentials, no escapes, no IPv6 address) whose host is one that
\* Host_parse covers: an error when the scheme
\* is not valid (the input is then a relative reference without a base),
\* when the host is empty or not valid, and when the port is not valid.
Url_parse_base(scheme, domain, version) ==
    LET sch == to_ascii_lowercase(trim_start(scheme))
    IN  IF ~scheme_valid(sch) THEN [ok |-> FALSE]
        ELSE parse_after_scheme(sch, "//" \o domain \o "/" \o version \o "/")

\* Url::join(&self, input) as the Result it is, for a reference of
\* printable ASCII characters without a scheme.  A reference that starts
\* with two separators names its own authority (taken to hold no '@', '%'
\* and brackets, as the domain of Url_parse_base), which may not parse: the
\* authority starts right after a leading "//", so a third separator makes
\* the host empty; after any other pair of separators every separator that
\* follows is passed too.  Any other reference is resolved as Url_join does.
Url_join_result(base, input) ==
    LET t == trim(input)
    IN  IF Len(t) >= 2 /\ CharAt(t, 1) \in {"/", "\\"} /\ CharAt(t, 2) \in {"/", "\\"}
        THEN IF SubSeq(t, 1, 2) = "//"
             THEN after_double_slash(base.scheme, SubSeq(t, 3, Len(t)))
             ELSE after_double_slash(base.scheme, skip_slashes(t))
        ELSE [ok |-> TRUE, val |-> Url_join(base, input)]


(***************************************************************************)
(* client.rs: APIVersion, Client, the endpoint accessors and               *)
(* Client::get_with_params.  A Client is [api_base, app_name].             *)
(***************************************************************************)
RELIEFWEB_DOMAIN == "api.reliefweb.int"

APIVersion == {"APIVersion::V1", "APIVersion::V2"}

APIVersion_to_string(v) ==
    CASE v = "APIVersion::V1" -> "v1"
      [] v = "APIVersion::V2" -> "v2"

\* new_with_scheme with the public instance put in place of a base that
\* does not parse.
Client_new_with_scheme_fallback(scheme, domain, app_name, version) ==
    LET api_base == Url_parse_base(scheme, domain, APIVersion_to_string(version))
        fallback == Url_parse_base("https", RELIEFWEB_DOMAIN, APIVersion_to_string(version))
    IN  [ok  |-> TRUE,
         val |-> [api_base |-> IF api_base.ok THEN api_base.val ELSE fallback.val,
                  app_name |-> app_name]]

\* Client::new_with_scheme: Ok(Client) or Err.
Client_new_with_scheme(scheme, domain, app_name, version) ==
    LET api_base == Url_parse_base(scheme, domain, APIVersion_to_string(version))
    IN  IF api_base.ok
        THEN [ok |-> TRUE, val |-> [api_base |-> api_base.val, app_name |-> app_name]]
        ELSE [ok |-> FALSE]

\* new with the scheme http.
Client_new_http(domain, app_name, version) ==
    Client_new_with_scheme("http", domain, app_name, version)

\* Client::new: the scheme is https.
Client_new(domain, app_name, version) ==
    Client_new_with_scheme("https", domain, app_name, version)

\* endpoint.rs: ResourceEndpoint::new.  An endpoint is [client, resource].
ResourceEndpoint_new(client, resource) == [client |-> client, resource |-> resource]

Client_reports(self) == ResourceEndpoint_new(self, "reports")

Client_disasters(self) == ResourceEndpoint_new(self, "disasters")

Client_countries(self) == ResourceEndpoint_new(self, "countries")

Client_jobs(self) == ResourceEndpoint_new(self, "jobs")

Client_training(self) == ResourceEndpoint_new(self, "training")

Client_sources(self) == ResourceEndpoint_new(self, "sources")

Client_blog(self) == ResourceEndpoint_new(self, "blog")

Client_book(self) == ResourceEndpoint_new(self, "book")

\* The endpoints a client hands out.
Endpoints(self) ==
    {Client_reports(self), Client_disasters(self), Client_countries(self),
     Client_jobs(self), Client_training(self), Client_sources(self),
     Client_blog(self), Client_book(self)}

\* Client::get_with_params(&self, endpoint, params): the URL of the GET
\* request it builds.  params is an Option<&QueryParams>.
get_with_params(self, endpoint, params) ==
    LET u == append_pair(query_pairs_mut(endpoint), "appname", self.app_name)
    IN  IF is_some(params) THEN apply_to_url(params.val, u) ELSE u

(***************************************************************************)
(* endpoint.rs: the request of ResourceEndpoint::list and of               *)
(* ResourceEndpoint::get.                                                  *)
(***************************************************************************)
\* list with a default Query of ten results put in place of an absent one.
list_request_default(self, params) ==
    get_with_params(self.client,
                    Url_join_result(self.client.api_base, self.resource).val,
                    IF is_some(params) THEN params ELSE Some(QueryParams_limit(QueryParams_new, 10)))

\* list: the collection URL, then get_with_params with the caller's params.
\* The request of a list whose join is Ok, for a resource that
\* Url_join_result covers (no scheme; no '@', '%' and brackets in an
\* authority of its own); on an Err list returns it and builds no request.
list_request(self, params) ==
    get_with_params(self.client,
                    Url_join_result(self.client.api_base, self.resource).val, params)

\* The fresh Query that get builds from profile, include and exclude, each
\* an Option.
get_params(profile, include, exclude) ==
    LET p0 == QueryParams_new
        p1 == IF is_some(profile) THEN QueryParams_profile(p0, profile.val) ELSE p0
        p2 == IF is_some(include) THEN QueryParams_include(p1, include.val) ELSE p1
    IN  IF is_some(exclude) THEN QueryParams_exclude(p2, exclude.val) ELSE p2

\* get: the item URL "<resource>/<id>", then get_with_params with that Query.
\* The request of a get whose join is Ok, for a reference "<resource>/<id>"
\* that Url_join_result covers (no scheme; no '@', '%' and brackets in an
\* authority of its own); on an Err get returns it and builds no request.
get_request(self, id, profile, include, exclude) ==
    get_with_params(self.client,
                    Url_join_result(self.client.api_base,
                                    self.resource \o "/" \o id).val,
                    Some(get_params(profile, include, exclude)))


(***************************************************************************)
(* response.rs: the envelope ApiResponse<T> and its parts, as serde        *)
(* deserializes them from a JSON body.  A JSON value is a record with its  *)
(* type t: "null", "num" (an integer num), "float" (a number that is no    *)
(* integer), "str" (a string str), "arr" (a sequence arr of values) or     *)
(* "obj" (a function obj from keys to values); a body that is no JSON text *)
(* has the type "invalid".  A decoder returns [ok |-> TRUE, val |-> ...] or        *)
(* [ok |-> FALSE].                                                         *)
(***************************************************************************)
JNull == [t |-> "null"]

JNum(n) == [t |-> "num", num |-> n]

JFloat == [t |-> "float"]

JStr(s) == [t |-> "str", str |-> s]

JArr(values) == [t |-> "arr", arr |-> values]

JObj(members) == [t |-> "obj", obj |-> members]

NotJson == [t |-> "invalid"]

Ok(v) == [ok |-> TRUE, val |-> v]

Err == [ok |-> FALSE]

\* The member of an object that a field reads: absent, or the value.
member(value, key) == IF key \in DOMAIN value.obj THEN Some(value.obj[key]) ELSE None

\* The forms serde's derived Deserialize takes for a struct of n fields: a
\* JSON object (visit_map), or a JSON array of exactly n elements, the
\* fields in the order of their declaration (visit_seq).
is_struct(value, n) ==
    \/ value.t = "obj"
    \/ value.t = "arr" /\ Len(value.arr) = n

\* What the field declared at position `index` and named `key` reads: the
\* member of an object, or the element of an array.
struct_field(value, index, key) ==
    IF value.t = "obj" THEN member(value, key) ELSE Some(value.arr[index])

\* Option<u32> with 0 put in place of an absent member.
de_option_u32_default(m) ==
    IF ~is_some(m) \/ m.val = JNull THEN Ok(Some(0))
    ELSE IF m.val.t = "num" /\ m.val.num >= 0 THEN Ok(Some(m.val.num))
    ELSE Err

\* A field of type Option<u32>: None for an absent member and for null,
\* Some(n) for an integer that is not negative, an error for anything else.
de_option_u32(m) ==
    IF ~is_some(m) \/ m.val = JNull THEN Ok(None)
    ELSE IF m.val.t = "num" /\ m.val.num >= 0 THEN Ok(Some(m.val.num))
    ELSE Err

\* A field of type Option<i64>.
de_option_i64(m) ==
    IF ~is_some(m) \/ m.val = JNull THEN Ok(None)
    ELSE IF m.val.t = "num" THEN Ok(Some(m.val.num))
    ELSE Err

\* A field of type Option<String>.
de_option_string(m) ==
    IF ~is_some(m) \/ m.val = JNull THEN Ok(None)
    ELSE IF m.val.t = "str" THEN Ok(Some(m.val.str))
    ELSE Err

\* A field of type String: the member must be there.
de_string(m) == IF is_some(m) /\ m.val.t = "str" THEN Ok(m.val.str) ELSE Err

\* HrefLink { href: String }.
HrefLink_from_json(value) ==
    IF ~is_struct(value, 1) THEN Err
    ELSE LET href == de_string(struct_field(value, 1, "href"))
         IN  IF href.ok THEN Ok([href |-> href.val]) ELSE Err

\* A field of type Option<HrefLink>.
de_option_HrefLink(m) ==
    IF ~is_some(m) \/ m.val = JNull THEN Ok(None)
    ELSE LET link == HrefLink_from_json(m.val)
         IN  IF link.ok THEN Ok(Some(link.val)) ELSE Err

\* Links { self, next, prev }.
Links_from_json(value) ==
    IF ~is_struct(value, 3) THEN Err
    ELSE LET self_ == de_option_HrefLink(struct_field(value, 1, "self"))
             next  == de_option_HrefLink(struct_field(value, 2, "next"))
             prev  == de_option_HrefLink(struct_field(value, 3, "prev"))
         IN  IF self_.ok /\ next.ok /\ prev.ok
             THEN Ok([self_ |-> self_.val, next |-> next.val, prev |-> prev.val])
             ELSE Err

\* A field of type Option<Links>.
de_option_Links(m) ==
    IF ~is_some(m) \/ m.val = JNull THEN Ok(None)
    ELSE LET links == Links_from_json(m.val)
         IN  IF links.ok THEN Ok(Some(links.val)) ELSE Err

\* fields/report.rs: the fields T of an item, ReportFields, of which the
\* decoded value keeps id, title and status (the bodies of the model hold
\* no other member of it); a member with another key is passed over.  The
\* structs of fields/common.rs are not modelled: for a field of type
\* Option<S> or Option<Vec<S>>, S one of them, an absent member and null
\* are None, a string and a number are errors, so is an object for a Vec,
\* and an array or an object for S is taken to be one that decodes.
Fields_from_json(value) ==
    IF ~is_struct(value, 15) THEN Err
    ELSE LET common(m, types) ==
                 IF ~is_some(m) \/ m.val = JNull THEN Ok(None)
                 ELSE IF m.val.t \in types THEN Ok(Some(m.val))
                 ELSE Err
             id     == de_option_i64(struct_field(value, 1, "id"))
             title  == de_option_string(struct_field(value, 2, "title"))
             status == de_option_string(struct_field(value, 3, "status"))
             others ==
                 <<de_option_string(struct_field(value, 4, "body")),
                   de_option_string(struct_field(value, 5, "origin")),
                   common(struct_field(value, 6, "primary_country"), {"obj", "arr"}),
                   common(struct_field(value, 7, "country"), {"arr"}),
                   common(struct_field(value, 8, "source"), {"arr"}),
                   common(struct_field(value, 9, "language"), {"arr"}),
                   common(struct_field(value, 10, "theme"), {"arr"}),
                   common(struct_field(value, 11, "format"), {"arr"}),
                   de_option_string(struct_field(value, 12, "url")),
                   de_option_string(struct_field(value, 13, "url_alias")),
                   de_option_string(struct_field(value, 14, "body-html")),
                   common(struct_field(value, 15, "date"), {"obj", "arr"})>>
         IN  IF /\ id.ok /\ title.ok /\ status.ok
                /\ \A i \in 1..Len(others) : others[i].ok
             THEN Ok([id |-> id.val, title |-> title.val, status |-> status.val])
             ELSE Err

\* ApiItem<T> { id, score, fields, href }: id and fields must be there.
ApiItem_from_json(value) ==
    IF ~is_struct(value, 4) THEN Err
    ELSE LET id     == de_string(struct_field(value, 1, "id"))
             score  == de_option_u32(struct_field(value, 2, "score"))
             fields == IF is_some(struct_field(value, 3, "fields"))
                       THEN Fields_from_json(struct_field(value, 3, "fields").val) ELSE Err
             href   == de_option_string(struct_field(value, 4, "href"))
         IN  IF id.ok /\ score.ok /\ fields.ok /\ href.ok
             THEN Ok([id |-> id.val, score |-> score.val, fields |-> fields.val,
                      href |-> href.val])
             ELSE Err

\* Vec<ApiItem<T>> with an empty vector put in place of an absent member.
de_vec_ApiItem_default(m) ==
    IF ~is_some(m) THEN Ok(<<>>)
    ELSE IF m.val.t # "arr" THEN Err
    ELSE LET items == [i \in 1..Len(m.val.arr) |-> ApiItem_from_json(m.val.arr[i])]
         IN  IF \A i \in 1..Len(items) : items[i].ok
             THEN Ok([i \in 1..Len(items) |-> items[i].val])
             ELSE Err

\* A field of type Vec<ApiItem<T>>: an array whose elements all decode.
de_vec_ApiItem(m) ==
    IF ~is_some(m) \/ m.val.t # "arr" THEN Err
    ELSE LET items == [i \in 1..Len(m.val.arr) |-> ApiItem_from_json(m.val.arr[i])]
         IN  IF \A i \in 1..Len(items) : items[i].ok
             THEN Ok([i \in 1..Len(items) |-> items[i].val])
             ELSE Err

\* serde_json::from_slice::<ApiResponse<T>>(body), for a body that is no
\* JSON text or one JSON value.
ApiResponse_from_json(value) ==
    IF ~is_struct(value, 6) THEN Err
    ELSE LET href        == de_option_string(struct_field(value, 1, "href"))
             time        == de_option_u32(struct_field(value, 2, "time"))
             links       == de_option_Links(struct_field(value, 3, "links"))
             total_count == de_option_u32(struct_field(value, 4, "totalCount"))
             count       == de_option_u32(struct_field(value, 5, "count"))
             data        == de_vec_ApiItem(struct_field(value, 6, "data"))
         IN  IF href.ok /\ time.ok /\ links.ok /\ total_count.ok /\ count.ok /\ data.ok
             THEN Ok([href |-> href.val, time |-> time.val, links |-> links.val,
                      total_count |-> total_count.val, count |-> count.val,
                      data |-> data.val])
             ELSE Err


(***************************************************************************)
(* Bounds and inputs.                                                      *)
(***************************************************************************)
\* The most entries (scalars set plus elements of the five sequences) of a
\* Query handed to the encoder alone.
MaxItems == 2

\* The most entries of a Query a caller passes to list.
MaxCallItems == 1

\* The longest vector passed to a builder method or to get.
MaxVec == 2

\* The vectors over S of at most n elements, and of at most MaxVec.
VecsUpTo(S, n) == UNION {[1..k -> S] : k \in 0..(IF n < MaxVec THEN n ELSE MaxVec)}

OptionOf(S) == {None} \cup {Some(x) : x \in S}

AppNames == {"app", "my app&x=1"}

Domains == {RELIEFWEB_DOMAIN}

FieldPaths == {"title", "field+name"}

FieldVecs == {<<>>, <<"title">>, <<"title", "field+name">>}

Values == {"foo bar", "a&b=c%2B"}

FilterValues == {"active", "a&b=c%2B"}

\* Values of a u32 limit or offset: the least, one above the documented
\* maximum of limit, and 2^31 - 1.
U32Values == {0, 1001, 2147483647}

QueryQueries == [value : Values, fields : FieldVecs, operator : OptionOf(FilterOperator)]

QueryFilters ==
    [field : {"status"}, value : FilterValues, operator : OptionOf(FilterOperator),
     negate : BOOLEAN]

SortDescriptors == [field : {"date", "a b"}, direction : SortDirection]

Ids == {"123", "7?a=b", "1?limit=5", "../9", "%2e%2e/9"}

\* The clients that Client::new constructs from the inputs.
Clients ==
    {Client_new(d, a, v).val : <<d, a, v>> \in
        {x \in Domains \X AppNames \X APIVersion : Client_new(x[1], x[2], x[3]).ok}}

\* The Url of the encoder's unit tests: https://example.com/api
TestUrl ==
    [scheme |-> "https", host |-> "example.com", port |-> None, path |-> <<"api">>,
     query |-> None, fragment |-> None]

\* The number of entries of a Query.
Size(q) ==
    Len(q.query) + Len(q.filter) + Len(q.sort) + Len(q.include) + Len(q.exclude)
        + Cardinality({f \in {"verbose", "limit", "offset", "profile", "preset"} :
                           is_some(q[f])})

(***************************************************************************)
(* The state: the client, the Query the caller holds, where the caller is  *)
(* (idle, awaiting the answer to a request, or holding an encoded test     *)
(* Url), the call in progress, its request Url, and the Url the encoder    *)
(* was applied to on its own; the construction of a Client the caller has  *)
(* asked for, with its arguments and its Result; the calls that run        *)
(* concurrently on the client, one record per task; a response body and    *)
(* the Result of decoding it; the pairs read back from the encoded test    *)
(* Url with query_pairs.                                                   *)
(***************************************************************************)
VARIABLES client, qp, pc, call, request, url, made, tasks, body, decoded, pairs

vars == <<client, qp, pc, call, request, url, made, tasks, body, decoded, pairs>>

Init ==
    /\ client \in Clients
    /\ qp = QueryParams_new
    /\ pc = "idle"
    /\ call = None
    /\ request = None
    /\ url = None
    /\ made = None
    /\ tasks = <<>>
    /\ body = None
    /\ decoded = None
    /\ pairs = <<>>

\* A builder method returns the Query `new`; the caller keeps it.  cap bounds
\* its entries; the vector methods draw vectors that fit.
Built(cap, new) ==
    /\ pc = "idle"
    /\ Size(new) <= cap
    /\ qp' = new
    /\ UNCHANGED <<made, tasks, body, decoded, client, pc, call, request, url, pairs>>

Query(cap) == \E q \in QueryQueries : Built(cap, QueryParams_query(qp, q))

Queries(cap) ==
    \E v \in VecsUpTo(QueryQueries, cap - Size(qp)) : Built(cap, QueryParams_queries(qp, v))

Filter(cap) == \E f \in QueryFilters : Built(cap, QueryParams_filter(qp, f))

Filters(cap) ==
    \E v \in VecsUpTo(QueryFilters, cap - Size(qp)) : Built(cap, QueryParams_filters(qp, v))

Verbose(cap) == \E v \in BOOLEAN : Built(cap, QueryParams_verbose(qp, v))

Limit(cap) == \E l \in U32Values : Built(cap, QueryParams_limit(qp, l))

Offset(cap) == \E o \in U32Values : Built(cap, QueryParams_offset(qp, o))

Sort(cap) ==
    \E v \in VecsUpTo(SortDescriptors, cap - Size(qp)) : Built(cap, QueryParams_sort(qp, v))

Profile(cap) == \E p \in QueryProfile : Built(cap, QueryParams_profile(qp, p))

Preset(cap) == \E p \in QueryPreset : Built(cap, QueryParams_preset(qp, p))

Include(cap) ==
    \E v \in VecsUpTo(FieldPaths, cap - Size(qp)) : Built(cap, QueryParams_include(qp, v))

Exclude(cap) ==
    \E v \in VecsUpTo(FieldPaths, cap - Size(qp)) : Built(cap, QueryParams_exclude(qp, v))

\* ResourceEndpoint::list(params) up to the request it sends: params is None
\* or the caller's Query.
List ==
    /\ pc = "idle"
    /\ \E ep \in Endpoints(client), params \in {None, Some(qp)} :
          /\ call' = Some([op |-> "list", endpoint |-> ep, params |-> params])
          /\ request' = Some(list_request(ep, params))
    /\ pc' = "awaiting"
    /\ UNCHANGED <<made, tasks, body, decoded, client, qp, url, pairs>>

\* ResourceEndpoint::get(id, profile, include, exclude) up to the request it
\* sends.  get reads no Query of the caller: the caller of the model gets by
\* id before it has built one.
Get ==
    /\ pc = "idle"
    /\ qp = QueryParams_new
    /\ \E ep \in Endpoints(client), id \in Ids, profile \in OptionOf(QueryProfile),
          include \in OptionOf(FieldVecs), exclude \in OptionOf(FieldVecs) :
          /\ call' = Some([op |-> "get", endpoint |-> ep, id |-> id, profile |-> profile,
                           include |-> include, exclude |-> exclude])
          /\ request' = Some(get_request(ep, id, profile, include, exclude))
    /\ pc' = "awaiting"
    /\ UNCHANGED <<made, tasks, body, decoded, client, qp, url, pairs>>

\* The call returns to the caller; its request is gone.
Return ==
    /\ pc = "awaiting"
    /\ pc' = "idle"
    /\ call' = None
    /\ request' = None
    /\ UNCHANGED <<made, tasks, body, decoded, client, qp, url, pairs>>

Next ==
    \/ Query(MaxCallItems)
    \/ Queries(MaxCallItems)
    \/ Filter(MaxCallItems)
    \/ Filters(MaxCallItems)
    \/ Verbose(MaxCallItems)
    \/ Limit(MaxCallItems)
    \/ Offset(MaxCallItems)
    \/ Sort(MaxCallItems)
    \/ Profile(MaxCallItems)
    \/ Preset(MaxCallItems)
    \/ Include(MaxCallItems)
    \/ Exclude(MaxCallItems)
    \/ List
    \/ Get
    \/ Return

Spec == Init /\ [][Next]_vars

(***************************************************************************)
(* The encoder on its own, as its unit tests drive it: a Query is built,   *)
(* apply_to_url writes it to a fresh Url, the Url is inspected and         *)
(* dropped.                                                                *)
(***************************************************************************)
InitEncoder ==
    /\ client = Client_new(RELIEFWEB_DOMAIN, "app", "APIVersion::V2").val
    /\ qp = QueryParams_new
    /\ pc = "idle"
    /\ call = None
    /\ request = None
    /\ url = None
    /\ made = None
    /\ tasks = <<>>
    /\ body = None
    /\ decoded = None
    /\ pairs = <<>>

\* ApplyToUrl with an encoder that takes the sequences out of the Query.
ApplyToUrl_draining ==
    /\ pc = "idle"
    /\ url' = Some(apply_to_url(qp, TestUrl))
    /\ qp' = [qp EXCEPT !.query = <<>>, !.filter = <<>>, !.sort = <<>>,
                         !.include = <<>>, !.exclude = <<>>]
    /\ pairs' = query_pairs(url'.val)
    /\ pc' = "applied"
    /\ UNCHANGED <<made, tasks, body, decoded, client, call, request>>

\* params.apply_to_url(&mut url), then url.query_pairs().collect(): the
\* test holds the Url and the pairs it reads back from it.
ApplyToUrl ==
    /\ pc = "idle"
    /\ url' = Some(apply_to_url(qp, TestUrl))
    /\ pairs' = query_pairs(url'.val)
    /\ pc' = "applied"
    /\ UNCHANGED <<made, tasks, body, decoded, client, qp, call, request>>

\* The caller uses the Query it has encoded once more, in a request of the
\* client: get_with_params appends appname to the endpoint's Url, then
\* calls params.apply_to_url(&mut url) on it.
Reuse ==
    /\ pc = "applied"
    /\ request' = Some(get_with_params(client, TestUrl, Some(qp)))
    /\ pc' = "reused"
    /\ UNCHANGED <<made, tasks, body, decoded, client, qp, call, url, pairs>>

DropUrl ==
    /\ pc \in {"applied", "reused"}
    /\ pc' = "idle"
    /\ url' = None
    /\ pairs' = <<>>
    /\ request' = None
    /\ UNCHANGED <<made, tasks, body, decoded, client, qp, call>>

NextEncoder ==
    \/ Query(MaxItems)
    \/ Queries(MaxItems)
    \/ Filter(MaxItems)
    \/ Filters(MaxItems)
    \/ Verbose(MaxItems)
    \/ Limit(MaxItems)
    \/ Offset(MaxItems)
    \/ Sort(MaxItems)
    \/ Profile(MaxItems)
    \/ Preset(MaxItems)
    \/ Include(MaxItems)
    \/ Exclude(MaxItems)
    \/ ApplyToUrl
    \/ Reuse
    \/ DropUrl

SpecEncoder == InitEncoder /\ [][NextEncoder]_vars


(***************************************************************************)
(* The builder on its own, as test_query_params_builder drives it: the     *)
(* caller chains builder methods on a Query, and call holds the method     *)
(* last called with the argument passed to it.                             *)
(***************************************************************************)
InitBuilder ==
    /\ client = Client_new(RELIEFWEB_DOMAIN, "app", "APIVersion::V2").val
    /\ qp = QueryParams_new
    /\ pc = "idle"
    /\ call = None
    /\ request = None
    /\ url = None
    /\ made = None
    /\ tasks = <<>>
    /\ body = None
    /\ decoded = None
    /\ pairs = <<>>

\* The method `method` was called with an argument and returned the Query
\* `new`, which the caller keeps.
Chained(method, new) ==
    /\ pc = "idle"
    /\ Size(new) <= MaxItems
    /\ qp' = new
    /\ call' = Some(method)
    /\ UNCHANGED <<made, tasks, body, decoded, client, pc, request, url, pairs>>

Builder_query ==
    \E q \in QueryQueries :
        Chained([op |-> "query", clauses |-> <<q>>], QueryParams_query(qp, q))

Builder_queries ==
    \E v \in VecsUpTo(QueryQueries, MaxItems - Size(qp)) :
        Chained([op |-> "queries", clauses |-> v], QueryParams_queries(qp, v))

Builder_filter ==
    \E f \in QueryFilters :
        Chained([op |-> "filter", conditions |-> <<f>>], QueryParams_filter(qp, f))

Builder_filters ==
    \E v \in VecsUpTo(QueryFilters, MaxItems - Size(qp)) :
        Chained([op |-> "filters", conditions |-> v], QueryParams_filters(qp, v))

Builder_verbose ==
    \E v \in BOOLEAN : Chained([op |-> "verbose", flag |-> v], QueryParams_verbose(qp, v))

Builder_limit ==
    \E l \in U32Values : Chained([op |-> "limit", number |-> l], QueryParams_limit(qp, l))

Builder_offset ==
    \E o \in U32Values : Chained([op |-> "offset", number |-> o], QueryParams_offset(qp, o))

Builder_sort ==
    \E v \in VecsUpTo(SortDescriptors, MaxItems - Size(qp)) :
        Chained([op |-> "sort", descriptors |-> v], QueryParams_sort(qp, v))

Builder_profile ==
    \E p \in QueryProfile : Chained([op |-> "profile", word |-> p], QueryParams_profile(qp, p))

Builder_preset ==
    \E p \in QueryPreset : Chained([op |-> "preset", word |-> p], QueryParams_preset(qp, p))

Builder_include ==
    \E v \in VecsUpTo(FieldPaths, MaxItems - Size(qp)) :
        Chained([op |-> "include", paths |-> v], QueryParams_include(qp, v))

Builder_exclude ==
    \E v \in VecsUpTo(FieldPaths, MaxItems - Size(qp)) :
        Chained([op |-> "exclude", paths |-> v], QueryParams_exclude(qp, v))

NextBuilder ==
    \/ Builder_query
    \/ Builder_queries
    \/ Builder_filter
    \/ Builder_filters
    \/ Builder_verbose
    \/ Builder_limit
    \/ Builder_offset
    \/ Builder_sort
    \/ Builder_profile
    \/ Builder_preset
    \/ Builder_include
    \/ Builder_exclude

SpecBuilder == InitBuilder /\ [][NextBuilder]_vars


(***************************************************************************)
(* The construction of a client: a program asks once for a Client, with    *)
(* Client::new or with Client::new_with_scheme, and keeps the Client of an *)
(* Ok result.  The accessors and list take a &Client: without a Client     *)
(* there is no endpoint to call.                                           *)
(***************************************************************************)
\* The domain arguments: the public instance, the domain of the unit test
\* that expects an error, a mock server's address, a domain in upper case,
\* one with the default port of https, one with a prefix path, and domains
\* with an empty host or a port out of range.
DomainArgs ==
    {RELIEFWEB_DOMAIN, "not a url", "127.0.0.1:8080", "API.reliefweb.int",
     "api.reliefweb.int:443", "localhost/api", ":80", "localhost:99999", "xn--",
     "1.2.3.010", "0x7f.1", "1.2.3.08", "a.0x", "h:0080", "h/a b"}

SchemeArgs == {"https", "http", "HTTP", " http", "1http", ""}

InitClient ==
    /\ client = None
    /\ qp = QueryParams_new
    /\ pc = "idle"
    /\ call = None
    /\ request = None
    /\ url = None
    /\ made = None
    /\ tasks = <<>>
    /\ body = None
    /\ decoded = None
    /\ pairs = <<>>

\* The caller receives the Result of a constructor.
Made(ctor, scheme, domain, app_name, version, result) ==
    /\ made = None
    /\ made' = Some([ctor |-> ctor, scheme |-> scheme, domain |-> domain,
                     app_name |-> app_name, version |-> version, result |-> result])
    /\ client' = IF result.ok THEN result.val ELSE None
    /\ UNCHANGED <<qp, pc, call, request, url, tasks, body, decoded, pairs>>

New ==
    \E domain \in DomainArgs, app_name \in AppNames, version \in APIVersion :
        Made("new", "https", domain, app_name, version,
             Client_new(domain, app_name, version))

NewWithScheme ==
    \E scheme \in SchemeArgs, domain \in DomainArgs, app_name \in AppNames,
       version \in APIVersion :
        Made("new_with_scheme", scheme, domain, app_name, version,
             Client_new_with_scheme(scheme, domain, app_name, version))

\* list on an endpoint of the Client the caller holds.
ClientList == client # None /\ List

NextClient ==
    \/ New
    \/ NewWithScheme
    \/ ClientList
    \/ Return

SpecClient == InitClient /\ [][NextClient]_vars


(***************************************************************************)
(* The decoder on its own: a body arrives, serde decodes it as             *)
(* ApiResponse<T>, the caller reads the Result and drops it.               *)
(***************************************************************************)
\* {"id": "1", "score": 100, "fields": {"title": "Report 1"}}
Item1 ==
    JObj("id" :> JStr("1") @@ "score" :> JNum(100)
             @@ "fields" :> JObj("title" :> JStr("Report 1")))

\* {"id": "2"}: an item without its fields.
ItemNoFields == JObj("id" :> JStr("2"))

\* What a body holds under "data", and under "totalCount" and "count".
DataValues == {JArr(<<>>), JArr(<<Item1>>), JArr(<<Item1, ItemNoFields>>), JNull, JStr("none")}

CountValues == {JNull, JNum(0), JNum(10), JNum(-1), JStr("10"), JFloat}

\* The members of the object {}.
NoMembers == [key \in {} |-> JNull]

\* members with the member key added when an Option holds its value.
WithMember(members, key, o) == IF is_some(o) THEN (key :> o.val) @@ members ELSE members

\* An object with the members data, totalCount and count that are given.
EnvelopeBody(data, total_count, count) ==
    JObj(WithMember(WithMember(WithMember(NoMembers, "data", data),
                               "totalCount", total_count), "count", count))

\* {"status": 404, "error": {"message": "not found"}}
ErrorBody ==
    JObj("status" :> JNum(404) @@ "error" :> JObj("message" :> JStr("not found")))

\* An envelope with every member, and one whose link has no href.
FullBody ==
    JObj("href" :> JStr("https://api.reliefweb.int/v2/reports") @@ "time" :> JNum(12)
             @@ "links" :> JObj("self" :> JObj("href" :> JStr("https://api.reliefweb.int/v2/reports"))
                                    @@ "prev" :> JNull)
             @@ "totalCount" :> JNum(10) @@ "count" :> JNum(1)
             @@ "data" :> JArr(<<Item1>>))

BadLinksBody ==
    JObj("links" :> JObj("self" :> JObj("url" :> JStr("x"))) @@ "data" :> JArr(<<>>))

\* The parts of an envelope that a body may hold or lack: members of the
\* envelope, of its links and of the one link under "self", and of its one
\* item.
Parts ==
    {"href", "time", "links", "links.self", "links.self.href", "links.next", "count",
     "data", "item", "item.id", "item.score", "item.fields", "item.href"}

\* v when the part is among parts, no member otherwise.
Part(parts, part, v) == IF part \in parts THEN Some(v) ELSE None

\* The envelope that holds the given parts, each with a value of its type.
ShapedBody(parts) ==
    LET self  == JObj(WithMember(NoMembers, "href",
                          Part(parts, "links.self.href", JStr("https://api.reliefweb.int/v2/reports"))))
        next  == JObj("href" :> JStr("https://api.reliefweb.int/v2/reports?offset=10"))
        links == JObj(WithMember(WithMember(NoMembers, "self", Part(parts, "links.self", self)),
                                 "next", Part(parts, "links.next", next)))
        item  == JObj(WithMember(WithMember(WithMember(WithMember(NoMembers,
                          "id", Part(parts, "item.id", JStr("1"))),
                          "score", Part(parts, "item.score", JNum(100))),
                          "fields", Part(parts, "item.fields", JObj("title" :> JStr("Report 1")))),
                          "href", Part(parts, "item.href", JStr("https://api.reliefweb.int/v2/reports/1"))))
        data  == JArr(IF "item" \in parts THEN <<item>> ELSE <<>>)
    IN  JObj(WithMember(WithMember(WithMember(WithMember(WithMember(NoMembers,
                 "href", Part(parts, "href", JStr("https://api.reliefweb.int/v2/reports"))),
                 "time", Part(parts, "time", JNum(12))),
                 "links", Part(parts, "links", links)),
                 "count", Part(parts, "count", JNum(1))),
                 "data", Part(parts, "data", data)))

Bodies ==
    {EnvelopeBody(d, t, c) :
        d \in OptionOf(DataValues), t \in OptionOf(CountValues), c \in OptionOf(CountValues)}
        \cup {NotJson, JNull, JNum(1), JStr("data"), ErrorBody, FullBody, BadLinksBody}
        \cup {ShapedBody(parts) : parts \in SUBSET Parts}

InitDecode ==
    /\ client = None
    /\ qp = QueryParams_new
    /\ pc = "idle"
    /\ call = None
    /\ request = None
    /\ url = None
    /\ made = None
    /\ tasks = <<>>
    /\ body = None
    /\ decoded = None
    /\ pairs = <<>>

\* A response body is at hand.
Receive ==
    /\ body = None
    /\ \E b \in Bodies : body' = Some(b)
    /\ UNCHANGED <<client, qp, pc, call, request, url, made, tasks, decoded, pairs>>

\* Response::json::<ApiResponse<T>>() on the body.
Decode ==
    /\ body # None
    /\ decoded = None
    /\ decoded' = Some(ApiResponse_from_json(body.val))
    /\ UNCHANGED <<client, qp, pc, call, request, url, made, tasks, body, pairs>>

\* The caller is done with the Result.
Drop ==
    /\ decoded # None
    /\ body' = None
    /\ decoded' = None
    /\ UNCHANGED <<client, qp, pc, call, request, url, made, tasks, pairs>>

NextDecode ==
    \/ Receive
    \/ Decode
    \/ Drop

SpecDecode == InitDecode /\ [][NextDecode]_vars


(***************************************************************************)
(* Calls in flight: tasks of the caller run list and get concurrently on   *)
(* one shared Client.  A call resolves its URL (Url::join), builds the     *)
(* request on that URL (get_with_params), sends it, and either the         *)
(* transport fails or a response arrives and its body is decoded; each `?` *)
(* returns the error to the caller.  A task holds the locals of its call.  *)
(***************************************************************************)
\* The number of tasks that call concurrently.
MaxTasks == 2

Tasks == 1..MaxTasks

\* An error returned to the caller, with the step that failed.
Failure(step) == [ok |-> FALSE, err |-> step]

IdleTask ==
    [pc |-> "idle", call |-> None, params |-> None, endpoint |-> None, request |-> None,
     response |-> None, result |-> None, sent |-> 0]

\* The endpoints called: reports, and an endpoint a caller has made with
\* ResourceEndpoint::new for a resource that is no relative path.
CallEndpoints(self) == {Client_reports(self), ResourceEndpoint_new(self, "//")}

CallParams == {None, Some(QueryParams_limit(QueryParams_new, 5))}

\* The status codes and the bodies the remote service answers with.
Statuses == {200, 404}

EmptyEnvelope == EnvelopeBody(Some(JArr(<<>>)), None, None)

CallBodies == {EmptyEnvelope, FullBody, ErrorBody, NotJson}

InitCalls ==
    /\ client = Client_new_with_scheme("http", "127.0.0.1:8080", "testapp",
                                       "APIVersion::V2").val
    /\ qp = QueryParams_new
    /\ pc = "idle"
    /\ call = None
    /\ request = None
    /\ url = None
    /\ made = None
    /\ tasks = [t \in Tasks |-> IdleTask]
    /\ body = None
    /\ decoded = None
    /\ pairs = <<>>

\* Task t moves on; nothing else changes.
Step(t, task) ==
    /\ tasks' = [tasks EXCEPT ![t] = task]
    /\ UNCHANGED <<client, qp, pc, call, request, url, made, body, decoded, pairs>>

\* The first statement of list and of get: the join, whose error returns.
Started(t, c, joined, params) ==
    /\ tasks[t].pc = "idle"
    /\ Step(t, IF joined.ok
               THEN [IdleTask EXCEPT !.pc = "joined", !.call = Some(c), !.params = params,
                                     !.endpoint = Some(joined.val)]
               ELSE [IdleTask EXCEPT !.pc = "done", !.call = Some(c),
                                     !.result = Some(Failure("join"))])

CallList(t) ==
    \E ep \in CallEndpoints(client), params \in CallParams :
        Started(t, [op |-> "list", endpoint |-> ep, params |-> params],
                Url_join_result(ep.client.api_base, ep.resource), params)

\* get("123", Some(QueryProfile::Minimal), None, None).
CallGet(t) ==
    \E ep \in CallEndpoints(client) :
        LET profile == Some("QueryProfile::Minimal")
        IN  Started(t, [op |-> "get", endpoint |-> ep, id |-> "123", profile |-> profile,
                        include |-> None, exclude |-> None],
                    Url_join_result(ep.client.api_base, ep.resource \o "/" \o "123"),
                    Some(get_params(profile, None, None)))

\* get_with_params that writes the pairs into the client's base URL.
Build_shared(t) ==
    /\ tasks[t].pc = "joined"
    /\ client' = [client EXCEPT !.api_base =
                      get_with_params(client, client.api_base, tasks[t].params)]
    /\ tasks' = [tasks EXCEPT ![t] =
                      [@ EXCEPT !.pc = "built",
                                !.request = Some(get_with_params(client, tasks[t].endpoint.val,
                                                                 tasks[t].params))]]
    /\ UNCHANGED <<qp, pc, call, request, url, made, body, decoded, pairs>>

\* Client::get_with_params on the call's own Url.
Build(t) ==
    /\ tasks[t].pc = "joined"
    /\ Step(t, [tasks[t] EXCEPT
                   !.pc = "built",
                   !.request = Some(get_with_params(client, tasks[t].endpoint.val,
                                                    tasks[t].params))])

\* RequestBuilder::send: the GET leaves.
Send(t) ==
    /\ tasks[t].pc = "built"
    /\ Step(t, [tasks[t] EXCEPT !.pc = "awaiting", !.sent = @ + 1])

\* A transport failure after which the request is sent again.
Fail_retry(t) ==
    /\ tasks[t].pc = "awaiting"
    /\ Step(t, [tasks[t] EXCEPT !.pc = "built"])

\* send().await? on a transport failure: the error returns.
Fail(t) ==
    /\ tasks[t].pc = "awaiting"
    /\ Step(t, [tasks[t] EXCEPT !.pc = "done", !.result = Some(Failure("send"))])

\* send().await? on a response, whatever its status.
Respond(t) ==
    /\ tasks[t].pc = "awaiting"
    /\ \E status \in Statuses, b \in CallBodies :
          Step(t, [tasks[t] EXCEPT !.pc = "answered",
                                   !.response = Some([status |-> status, body |-> b])])

\* json with an empty envelope put in place of a body that does not decode.
Json_default(t) ==
    /\ tasks[t].pc = "answered"
    /\ LET r == ApiResponse_from_json(tasks[t].response.val.body)
       IN  Step(t, [tasks[t] EXCEPT
                       !.pc = "done",
                       !.result = Some(IF r.ok THEN r
                                       ELSE ApiResponse_from_json(EmptyEnvelope))])

\* json::<ApiResponse<T>>().await? and Ok(resp).
Json(t) ==
    /\ tasks[t].pc = "answered"
    /\ LET r == ApiResponse_from_json(tasks[t].response.val.body)
       IN  Step(t, [tasks[t] EXCEPT
                       !.pc = "done",
                       !.result = Some(IF r.ok THEN r ELSE Failure("json"))])

\* The caller has the Result; the locals of the call are gone.
Finish(t) ==
    /\ tasks[t].pc = "done"
    /\ Step(t, IdleTask)

NextCalls ==
    \E t \in Tasks :
        \/ CallList(t)
        \/ CallGet(t)
        \/ Build(t)
        \/ Send(t)
        \/ Fail(t)
        \/ Respond(t)
        \/ Json(t)
        \/ Finish(t)

SpecCalls == InitCalls /\ [][NextCalls]_vars

\* The calls under the scheduling the code can count on: the executor that
\* polls a call runs its own statements (the request is built, the GET is
\* sent, a received body is decoded).  Whether the remote service answers
\* (Respond) or the transport gives up (Fail) is not the program's to decide:
\* Client::new and Client::new_with_scheme build the transport with
\* reqwest::Client::new(), which sets no timeout, so nothing forces either.
SpecCallsFair ==
    /\ SpecCalls
    /\ \A t \in Tasks : WF_vars(Build(t)) /\ WF_vars(Send(t)) /\ WF_vars(Json(t))


(***************************************************************************)
(* What the properties below read.                                         *)
(***************************************************************************)
StartsWith(s, prefix) == Len(s) >= Len(prefix) /\ SubSeq(s, 1, Len(prefix)) = prefix

\* The decoded pairs of the request in flight, and of the encoded test Url.
RequestPairs == query_pairs(request.val)

UrlPairs == pairs

\* The pairs of ps whose key starts with prefix, in order.
WithPrefix(ps, prefix) == SelectSeq(ps, LAMBDA p : StartsWith(p[1], prefix))

\* The pairs of ps with the key k, in order.
WithKey(ps, k) == SelectSeq(ps, LAMBDA p : p[1] = k)

RECURSIVE Flatten(_)
Flatten(seqs) == IF seqs = <<>> THEN <<>> ELSE Head(seqs) \o Flatten(Tail(seqs))

\* How often the string sub occurs in s.
Occurrences(s, sub) ==
    Cardinality({i \in 1..(Len(s) - Len(sub) + 1) : SubSeq(s, i, i + Len(sub) - 1) = sub})

RECURSIVE OccurrencesIn(_, _)
\* How often sub occurs in the keys and values of the pairs ps.
OccurrencesIn(ps, sub) ==
    IF ps = <<>> THEN 0
    ELSE Occurrences(Head(ps)[1], sub) + Occurrences(Head(ps)[2], sub)
             + OccurrencesIn(Tail(ps), sub)

EndsWith(s, suffix) ==
    Len(s) >= Len(suffix) /\ SubSeq(s, Len(s) - Len(suffix) + 1, Len(s)) = suffix

\* The word the remote service reads for an operator.
OperatorWord(op) == IF op = "FilterOperator::AND" THEN "AND" ELSE "OR"

(***************************************************************************)
(* C1.  Every request that get_with_params builds, from list and from get, *)
(* with any Query and any id, carries the pair appname=<app_name> as the   *)
(* first pair of its query string.                                         *)
(***************************************************************************)
C1_AppnameFirst ==
    pc = "awaiting" =>
        /\ RequestPairs # <<>>
        /\ RequestPairs[1] = <<"appname", client.app_name>>


(***************************************************************************)
(* C10.  On every endpoint, list(None) builds a request whose query string *)
(* is the single pair appname=<app_name> and nothing else.                 *)
(***************************************************************************)
C10_ListNone ==
    (pc = "awaiting" /\ call.val.op = "list" /\ call.val.params = None) =>
        /\ RequestPairs = <<<<"appname", client.app_name>>>>
        /\ Occurrences(request.val.query.val, "&") = 0

\* list(None) on the training endpoint of a client whose name needs escapes.
C10_Witness ==
    /\ pc = "awaiting"
    /\ call.val.op = "list"
    /\ call.val.params = None
    /\ call.val.endpoint.resource = "training"
    /\ client.app_name = "my app&x=1"
    /\ request.val.query = Some("appname=my+app%26x%3D1")

(***************************************************************************)
(* Properties of the encoder alone, read on the Url that apply_to_url has  *)
(* just written (SpecEncoder).                                             *)
(***************************************************************************)
Applied == pc = "applied"

ScalarKeys == <<"verbose", "limit", "offset", "profile", "preset">>

\* The group of a key in the emission order, 0 for a key of no group.
Group(k) ==
    CASE k = "verbose"           -> 1
      [] k = "limit"             -> 2
      [] k = "offset"            -> 3
      [] k = "profile"           -> 4
      [] k = "preset"            -> 5
      [] k = "fields[include][]" -> 6
      [] k = "fields[exclude][]" -> 7
      [] StartsWith(k, "query[") -> 8
      [] k = "filter[operator]" \/ StartsWith(k, "filter[conditions][") -> 9
      [] k = "sort[]"            -> 10
      [] OTHER                   -> 0

(***************************************************************************)
(* C2.  The pairs of an encoded Query come in the fixed group order:       *)
(* verbose, limit, offset, profile, preset, the include pairs, the exclude *)
(* pairs, the query pairs, the filter pairs, the sort pairs; no pair of a  *)
(* later group precedes a pair of an earlier one, whatever the order of    *)
(* the builder calls.                                                      *)
(***************************************************************************)
C2_GroupOrder ==
    Applied =>
        LET ps == UrlPairs
            g  == [i \in 1..Len(ps) |-> Group(ps[i][1])]
        IN  /\ \A i \in 1..Len(ps) : g[i] # 0
            /\ \A i, j \in 1..Len(ps) : i < j => g[i] <= g[j]

\* An encoded Query with pairs of two groups, a sort pair among them.
C2_Witness ==
    /\ Applied
    /\ qp.sort # <<>>
    /\ qp.filter # <<>>
    /\ LET ps == UrlPairs
       IN  Len(ps) >= 2 /\ Group(ps[1][1]) < Group(ps[Len(ps)][1])

(***************************************************************************)
(* C3.  A pair with the key verbose, limit, offset, profile or preset is   *)
(* emitted exactly once when the field is present and not at all when it   *)
(* is absent, never with an empty value; an empty include, exclude, query, *)
(* filter or sort sequence emits no pair of its key family.                *)
(***************************************************************************)
C3_AbsentNoPair ==
    Applied =>
        LET ps == UrlPairs
        IN  /\ \A n \in 1..Len(ScalarKeys) :
                   LET found == WithKey(ps, ScalarKeys[n])
                   IN  /\ Len(found) = (IF is_some(qp[ScalarKeys[n]]) THEN 1 ELSE 0)
                       /\ \A i \in 1..Len(found) : found[i][2] # ""
            /\ qp.include = <<>> => WithPrefix(ps, "fields[include]") = <<>>
            /\ qp.exclude = <<>> => WithPrefix(ps, "fields[exclude]") = <<>>
            /\ (qp.include = <<>> /\ qp.exclude = <<>>) => WithPrefix(ps, "fields") = <<>>
            /\ qp.query = <<>> => WithPrefix(ps, "query") = <<>>
            /\ qp.filter = <<>> => WithPrefix(ps, "filter") = <<>>
            /\ qp.sort = <<>> => WithPrefix(ps, "sort") = <<>>

\* An encoded Query with a scalar present, another absent, and no sequence
\* entry but one include path.
C3_Witness ==
    /\ Applied
    /\ is_some(qp.limit)
    /\ ~is_some(qp.verbose)
    /\ qp.include # <<>>
    /\ qp.exclude = <<>>
    /\ Len(UrlPairs) = 2


(***************************************************************************)
(* The pairs the encoding contract asks for, written from the contract:    *)
(* keys and values before any percent-encoding.                            *)
(***************************************************************************)
\* The pairs of the query clause q at 0-based position i.
ExpectedClause(i, q) ==
    LET prefix == "query[" \o ToString(i) \o "]"
    IN  <<<<prefix \o "[value]", q.value>>>>
            \o [j \in 1..Len(q.fields) |->
                    <<prefix \o "[fields][" \o ToString(j - 1) \o "]", q.fields[j]>>]
            \o (IF is_some(q.operator)
                THEN <<<<prefix \o "[operator]", OperatorWord(q.operator.val)>>>>
                ELSE <<>>)

ExpectedQuery(query) ==
    Flatten([i \in 1..Len(query) |-> ExpectedClause(i - 1, query[i])])

\* The pairs of the filter f at 0-based position i.
ExpectedCondition(i, f) ==
    LET prefix == "filter[conditions][" \o ToString(i) \o "]"
    IN  <<<<prefix \o "[field]", f.field>>, <<prefix \o "[value][]", f.value>>>>
            \o (IF f.negate THEN <<<<prefix \o "[negate]", "1">>>> ELSE <<>>)
            \o (IF is_some(f.operator)
                THEN <<<<prefix \o "[operator]", OperatorWord(f.operator.val)>>>>
                ELSE <<>>)

ExpectedConditions(filter) ==
    Flatten([i \in 1..Len(filter) |-> ExpectedCondition(i - 1, filter[i])])

\* The filters of a sequence that carry an operator, in order.
WithOperator(filter) == SelectSeq(filter, LAMBDA f : is_some(f.operator))

ExpectedFilterOperator(filter) ==
    IF WithOperator(filter) = <<>> THEN <<>>
    ELSE <<<<"filter[operator]", OperatorWord(WithOperator(filter)[1].operator.val)>>>>

ProfileWord(p) ==
    CASE p = "QueryProfile::Minimal" -> "minimal"
      [] p = "QueryProfile::Full"    -> "full"
      [] p = "QueryProfile::List"    -> "list"

PresetWord(p) ==
    CASE p = "QueryPreset::Minimal"  -> "minimal"
      [] p = "QueryPreset::Latest"   -> "latest"
      [] p = "QueryPreset::Analysis" -> "analysis"

DirectionWord(d) == IF d = "SortDirection::Asc" THEN "asc" ELSE "desc"

ExpectedScalars(q) ==
    (IF is_some(q.verbose) THEN <<<<"verbose", IF q.verbose.val THEN "1" ELSE "0">>>> ELSE <<>>)
        \o (IF is_some(q.limit) THEN <<<<"limit", ToString(q.limit.val)>>>> ELSE <<>>)
        \o (IF is_some(q.offset) THEN <<<<"offset", ToString(q.offset.val)>>>> ELSE <<>>)
        \o (IF is_some(q.profile) THEN <<<<"profile", ProfileWord(q.profile.val)>>>> ELSE <<>>)
        \o (IF is_some(q.preset) THEN <<<<"preset", PresetWord(q.preset.val)>>>> ELSE <<>>)

\* Every pair of a Query, in the order of the contract.
ExpectedPairs(q) ==
    ExpectedScalars(q)
        \o [i \in 1..Len(q.include) |-> <<"fields[include][]", q.include[i]>>]
        \o [i \in 1..Len(q.exclude) |-> <<"fields[exclude][]", q.exclude[i]>>]
        \o ExpectedQuery(q.query)
        \o ExpectedFilterOperator(q.filter)
        \o ExpectedConditions(q.filter)
        \o [i \in 1..Len(q.sort) |->
                <<"sort[]", q.sort[i].field \o ":" \o DirectionWord(q.sort[i].direction)>>]

(***************************************************************************)
(* C4.  The query clause at 0-based position i is encoded as               *)
(* query[i][value], then query[i][fields][j] for each field at position j  *)
(* in order, then query[i][operator] only if the clause has an operator;   *)
(* the indices are the positions 0..n-1, so permuting the clauses permutes *)
(* the indices identically.                                                *)
(***************************************************************************)
C4_QueryClauses ==
    Applied => WithPrefix(UrlPairs, "query") = ExpectedQuery(qp.query)

\* Two different clauses encoded, the first with two fields.
C4_Witness ==
    /\ Applied
    /\ Len(qp.query) = 2
    /\ qp.query[1] # qp.query[2]
    /\ Len(qp.query[1].fields) = 2
    /\ ~is_some(qp.query[1].operator)
    /\ is_some(qp.query[2].operator)
    /\ LET ps == UrlPairs
       IN  /\ ps[1][1] = "query[0][value]"
           /\ ps[3][1] = "query[0][fields][1]"
           /\ ps[4][1] = "query[1][value]"

(***************************************************************************)
(* C5.  The filter at 0-based position i is encoded as                     *)
(* filter[conditions][i][field], filter[conditions][i][value][], then      *)
(* filter[conditions][i][negate] only if negate is true, then              *)
(* filter[conditions][i][operator] only if an operator is present: one     *)
(* field pair and one value pair per filter, indices 0..n-1, permuted as   *)
(* the filters are.                                                        *)
(***************************************************************************)
C5_FilterConditions ==
    Applied => WithPrefix(UrlPairs, "filter[conditions]") = ExpectedConditions(qp.filter)

\* Two different filters encoded.
C5_Witness ==
    /\ Applied
    /\ Len(qp.filter) = 2
    /\ qp.filter[1].value # qp.filter[2].value
    /\ LET ps == WithPrefix(UrlPairs, "filter[conditions]")
       IN  /\ ps[1] = <<"filter[conditions][0][field]", qp.filter[1].field>>
           /\ ps[2] = <<"filter[conditions][0][value][]", qp.filter[1].value>>
           /\ \E k \in 3..Len(ps) :
                  ps[k] = <<"filter[conditions][1][value][]", qp.filter[2].value>>

(***************************************************************************)
(* C6.  A filter with negate = false emits no                              *)
(* filter[conditions][i][negate] pair (never one with the value 0); a      *)
(* filter with negate = true emits exactly one, with the value 1.          *)
(***************************************************************************)
C6_Negate ==
    Applied =>
        LET ps == UrlPairs
        IN  /\ \A i \in 1..Len(qp.filter) :
                   LET key == "filter[conditions][" \o ToString(i - 1) \o "][negate]"
                   IN  WithKey(ps, key) = (IF qp.filter[i].negate THEN <<<<key, "1">>>> ELSE <<>>)
            /\ \A k \in 1..Len(ps) : EndsWith(ps[k][1], "[negate]") => ps[k][2] = "1"

\* A filter that negates and one that does not, encoded together.
C6_Witness ==
    /\ Applied
    /\ Len(qp.filter) = 2
    /\ ~qp.filter[1].negate
    /\ qp.filter[2].negate
    /\ Len(SelectSeq(UrlPairs, LAMBDA p : EndsWith(p[1], "[negate]"))) = 1

(***************************************************************************)
(* C7.  With a non-empty filter sequence, the top-level filter[operator]   *)
(* pair is emitted once if some filter carries an operator and not at all  *)
(* otherwise; its value is the operator of the lowest-index filter that    *)
(* carries one, and it precedes every filter[conditions] pair.             *)
(***************************************************************************)
C7_TopOperator ==
    (Applied /\ qp.filter # <<>>) =>
        LET ps  == UrlPairs
            top == WithKey(ps, "filter[operator]")
            has == {i \in 1..Len(qp.filter) : is_some(qp.filter[i].operator)}
        IN  /\ Len(top) = (IF has = {} THEN 0 ELSE 1)
            /\ has # {} =>
                   LET low == CHOOSE i \in has : \A k \in has : i <= k
                   IN  top[1][2] = OperatorWord(qp.filter[low].operator.val)
            /\ \A i, j \in 1..Len(ps) :
                   (ps[i][1] = "filter[operator]" /\ StartsWith(ps[j][1], "filter[conditions]"))
                       => i < j

\* The first filter carries no operator and the second does.
C7_Witness ==
    /\ Applied
    /\ Len(qp.filter) = 2
    /\ ~is_some(qp.filter[1].operator)
    /\ qp.filter[2].operator = Some("FilterOperator::AND")
    /\ UrlPairs[1] = <<"filter[operator]", "AND">>

(***************************************************************************)
(* C8.  A Query holding one filter {field f, value v, operator Some(op),   *)
(* negate true} and nothing else encodes to exactly five pairs, in this    *)
(* order: filter[operator]=op, filter[conditions][0][field]=f,             *)
(* filter[conditions][0][value][]=v, filter[conditions][0][negate]=1,      *)
(* filter[conditions][0][operator]=op.                                     *)
(***************************************************************************)
C8_OneFilter ==
    (/\ Applied
     /\ Size(qp) = 1
     /\ Len(qp.filter) = 1
     /\ is_some(qp.filter[1].operator)
     /\ qp.filter[1].negate) =>
        LET f  == qp.filter[1]
            op == OperatorWord(f.operator.val)
        IN  UrlPairs = << <<"filter[operator]", op>>,
                          <<"filter[conditions][0][field]", f.field>>,
                          <<"filter[conditions][0][value][]", f.value>>,
                          <<"filter[conditions][0][negate]", "1">>,
                          <<"filter[conditions][0][operator]", op>> >>

\* The filter status = active, OR, negated, encoded on its own.
C8_Witness ==
    /\ Applied
    /\ qp = QueryParams_filter(QueryParams_new,
                [field |-> "status", value |-> "active",
                 operator |-> Some("FilterOperator::OR"), negate |-> TRUE])
    /\ UrlPairs = << <<"filter[operator]", "OR">>,
                     <<"filter[conditions][0][field]", "status">>,
                     <<"filter[conditions][0][value][]", "active">>,
                     <<"filter[conditions][0][negate]", "1">>,
                     <<"filter[conditions][0][operator]", "OR">> >>

(***************************************************************************)
(* C9.  Decoding the emitted query string pair by pair recovers the        *)
(* original keys and values in the same order, as many pairs as were       *)
(* emitted: no '&', '=', '+' or space of a value splits or merges pairs.   *)
(* A literal space is serialized as '+' and a literal '+' as '%2B'.        *)
(***************************************************************************)
C9_RoundTrip ==
    Applied =>
        LET raw      == url.val.query.val
            original == ExpectedPairs(qp)
        IN  /\ UrlPairs = original
            /\ Occurrences(raw, "=") = Len(original)
            /\ Occurrences(raw, "&") = (IF original = <<>> THEN 0 ELSE Len(original) - 1)
            /\ Occurrences(raw, " ") = 0
            /\ Occurrences(raw, "+") = OccurrencesIn(original, " ")
            /\ Occurrences(raw, "%2B") = OccurrencesIn(original, "+")

\* A Query with a space, a '+', a '&', a '=' and a '%' in its strings,
\* encoded.
C9_Witness ==
    /\ Applied
    /\ LET original == ExpectedPairs(qp)
       IN  /\ OccurrencesIn(original, " ") > 0
           /\ OccurrencesIn(original, "+") > 0
           /\ OccurrencesIn(original, "&") > 0
           /\ OccurrencesIn(original, "=") > 0
           /\ OccurrencesIn(original, "%") > 0
           /\ Occurrences(url.val.query.val, "%2B") > 0

(***************************************************************************)
(* What the properties of get read: the call in progress, the path of its  *)
(* request, and the pairs get is to add after appname.                     *)
(***************************************************************************)
Getting == pc = "awaiting" /\ call.val.op = "get"

\* The version segment the client was constructed with.
VersionSegment == client.api_base.path[1]

RequestPath == path_string(request.val.path)

\* The pairs of ps that follow its first pair with the key k.
RECURSIVE After(_, _)
After(ps, k) ==
    IF ps = <<>> THEN <<>>
    ELSE IF Head(ps)[1] = k THEN Tail(ps)
    ELSE After(Tail(ps), k)

OptionVec(o) == IF is_some(o) THEN o.val ELSE <<>>

ExpectedGetPairs(c) ==
    (IF is_some(c.profile) THEN << <<"profile", ProfileWord(c.profile.val)>> >> ELSE <<>>)
        \o [i \in 1..Len(OptionVec(c.include)) |->
                <<"fields[include][]", OptionVec(c.include)[i]>>]
        \o [i \in 1..Len(OptionVec(c.exclude)) |->
                <<"fields[exclude][]", OptionVec(c.exclude)[i]>>]

\* The keys get is never to emit.
IsListOnlyKey(k) ==
    \/ k \in {"verbose", "limit", "offset", "preset", "sort[]"}
    \/ StartsWith(k, "query[")
    \/ StartsWith(k, "filter[")

(***************************************************************************)
(* C11.  On every endpoint and for every id, get(id, None, None, None)     *)
(* builds a request whose query string is the single pair                  *)
(* appname=<app_name> and whose path is /<version>/<resource>/<id>.        *)
(***************************************************************************)
C11_GetBare ==
    (/\ Getting
     /\ call.val.profile = None
     /\ call.val.include = None
     /\ call.val.exclude = None) =>
        /\ RequestPairs = << <<"appname", client.app_name>> >>
        /\ RequestPath =
               "/" \o VersionSegment \o "/" \o call.val.endpoint.resource \o "/" \o call.val.id

(***************************************************************************)
(* C12.  For every call get(id, profile, include, exclude) the pairs of    *)
(* the request after appname are the profile pair if a profile is given,   *)
(* then one fields[include][] pair per include entry, then one             *)
(* fields[exclude][] pair per exclude entry, in order; the request of a    *)
(* get carries no verbose, limit, offset, preset, query[...], filter[...]  *)
(* or sort[] pair.                                                         *)
(***************************************************************************)
C12_GetPairs ==
    Getting =>
        LET ps == RequestPairs
        IN  /\ After(ps, "appname") = ExpectedGetPairs(call.val)
            /\ \A i \in 1..Len(ps) : ~IsListOnlyKey(ps[i][1])

(***************************************************************************)
(* C13.  For every client and every accessor, list targets the path        *)
(* /<version>/<resource> and get(id) the path /<version>/<resource>/<id>,  *)
(* on the host and with the scheme of the client's base URL: neither the   *)
(* Query nor the id changes the host, the version segment or the resource  *)
(* segment, and the resource of the endpoint is one of the eight names.    *)
(***************************************************************************)
C13_Target ==
    pc = "awaiting" =>
        LET c    == call.val
            base == "/" \o VersionSegment \o "/" \o c.endpoint.resource
        IN  /\ c.endpoint.resource \in
                   {"reports", "disasters", "countries", "jobs", "training", "sources",
                    "blog", "book"}
            /\ c.endpoint.client = client
            /\ request.val.host = client.api_base.host
            /\ request.val.scheme = client.api_base.scheme
            /\ VersionSegment \in {"v1", "v2"}
            /\ c.op = "list" => RequestPath = base
            /\ c.op = "get" => RequestPath = base \o "/" \o c.id

(***************************************************************************)
(* What the properties of the constructors read.                           *)
(***************************************************************************)
Constructed == made # None /\ made.val.result.ok

Refused == made # None /\ ~made.val.result.ok

\* The base URL the arguments spell: <scheme>://<domain>/<v1|v2>/
SpelledBase ==
    made.val.scheme \o "://" \o made.val.domain \o "/"
        \o (IF made.val.version = "APIVersion::V1" THEN "v1" ELSE "v2") \o "/"

LowerCaseName == Chars("abcdefghijklmnopqrstuvwxyz0123456789-.")

\* A host in normal form: labels of lower-case letters, digits and '-',
\* none of them empty or starting with the Punycode prefix "xn--", and
\* either the last label is no number (neither decimal digits only nor a
\* text after 0x), or the host is four decimal numbers of at most 255
\* written without leading zeros.
NormalHost(h) ==
    LET labels == split_dots(h)
    IN  /\ h # ""
        /\ \A i \in 1..Len(h) : CharAt(h, i) \in LowerCaseName
        /\ \A i \in 1..Len(labels) : labels[i] # "" /\ ~StartsWith(labels[i], "xn--")
        /\ \/ /\ ~IsDecimal(labels[Len(labels)])
              /\ ~StartsWith(labels[Len(labels)], "0x")
           \/ /\ Len(labels) = 4
              /\ \A i \in 1..4 :
                    /\ IsDecimal(labels[i])
                    /\ Len(labels[i]) <= 3
                    /\ parse_decimal(labels[i], <<0, 0>>)[2] <= 255
                    /\ (Len(labels[i]) > 1 => CharAt(labels[i], 1) # "0")

\* A port in normal form for a scheme: a decimal number up to 65535 without
\* leading zeros that is not the scheme's default port.
NormalPort(p, scheme) ==
    /\ IsDecimal(p)
    /\ Len(p) <= 5
    /\ CharAt(p, 1) # "0"
    /\ parse_decimal(p, <<0, 0>>)[1] = 0
    /\ p # (IF scheme = "https" THEN "443" ELSE "80")

\* A domain argument in normal form: a host, or a host, ':' and a port.
NormalDomain(d, scheme) ==
    LET colon == FindChar(d, ":", 1)
    IN  /\ NormalHost(SubSeq(d, 1, colon - 1))
        /\ colon <= Len(d) => NormalPort(SubSeq(d, colon + 1, Len(d)), scheme)

(***************************************************************************)
(* C14, as stated.  A successful Client::new(domain, app_name, version)    *)
(* yields a client whose base URL is exactly https://<domain>/<v1|v2>/ and *)
(* whose app_name is the argument; Client::new_with_scheme yields          *)
(* <scheme>://<domain>/<v1|v2>/; V1 maps to v1 and V2 to v2.               *)
(***************************************************************************)
C14_BaseExact ==
    Constructed =>
        /\ Url_as_str(client.api_base) = SpelledBase
        /\ client.app_name = made.val.app_name
        /\ made.val.ctor = "new" => made.val.scheme = "https"

(***************************************************************************)
(* C14, amended.  A successful constructor yields a client whose app_name  *)
(* is the argument and whose base URL ends with a slash; its scheme is     *)
(* https for Client::new, and for Client::new_with_scheme with a scheme    *)
(* argument that is http or https in any letter case it is that word in    *)
(* lower case.  The base URL is exactly <scheme>://<domain>/<v1|v2>/ when  *)
(* the scheme is http or https in lower case and the domain is in normal   *)
(* form: a host of non-empty labels of lower-case letters, digits and '-', *)
(* none starting with xn--, whose last label is no number, or four decimal *)
(* numbers of at most 255 without leading zeros; then, optionally, ':' and *)
(* a port in decimal without leading zeros, at most 65535, that is not the *)
(* scheme's default.  V1 maps to v1 and V2 to v2.                          *)
(***************************************************************************)
C14_BaseNormalForm ==
    Constructed =>
        LET m == made.val
        IN  /\ client.app_name = m.app_name
            /\ EndsWith(Url_as_str(client.api_base), "/")
            /\ m.ctor = "new" => client.api_base.scheme = "https"
            /\ to_ascii_lowercase(m.scheme) \in {"http", "https"} =>
                   client.api_base.scheme = to_ascii_lowercase(m.scheme)
            /\ (m.scheme \in {"http", "https"} /\ NormalDomain(m.domain, m.scheme)) =>
                   /\ Url_as_str(client.api_base) = SpelledBase
                   /\ client.api_base.path =
                          <<IF m.version = "APIVersion::V1" THEN "v1" ELSE "v2", "">>

\* A client made by Client::new_with_scheme from the address of a mock
\* server, a domain in normal form with a port.
C14_Witness ==
    /\ Constructed
    /\ made.val.ctor = "new_with_scheme"
    /\ made.val.scheme = "http"
    /\ made.val.domain = "127.0.0.1:8080"
    /\ made.val.version = "APIVersion::V1"
    /\ NormalDomain(made.val.domain, made.val.scheme)
    /\ Url_as_str(client.api_base) = "http://127.0.0.1:8080/v1/"

(***************************************************************************)
(* C15.  Client::new and Client::new_with_scheme return an error, and no   *)
(* Client, whenever <scheme>://<domain>/<version>/ is not a syntactically  *)
(* valid URL; no request is then issued.                                   *)
(***************************************************************************)
\* The name of a scheme: a letter, then letters, digits, '+', '-' and '.'.
IsSchemeName(text) ==
    /\ text # ""
    /\ CharAt(text, 1) \in Chars("ABCDEFGHIJKLMNOPQRSTUVWXYZabcdefghijklmnopqrstuvwxyz")
    /\ \A i \in 1..Len(text) :
          CharAt(text, i) \in
              Chars("ABCDEFGHIJKLMNOPQRSTUVWXYZabcdefghijklmnopqrstuvwxyz0123456789+-.")

\* A label that looks like a number: decimal digits, or 0x and hexadecimal
\* digits.
LooksNumeric(label) ==
    \/ IsDecimal(label)
    \/ /\ StartsWith(label, "0x")
       /\ \A i \in 3..Len(label) : CharAt(label, i) \in Chars("0123456789abcdef")

\* A label that writes a number: 0x and hexadecimal digits, a single digit,
\* decimal digits that start with no 0, or a 0 and octal digits.
WritesNumber(label) ==
    \/ StartsWith(label, "0x") /\ LooksNumeric(label)
    \/ /\ IsDecimal(label)
       /\ \/ Len(label) = 1
          \/ CharAt(label, 1) # "0"
          \/ \A i \in 1..Len(label) : CharAt(label, i) \in Chars("01234567")

\* Strings <scheme>://<domain>/<version>/ that are no URL, for a scheme
\* argument without ':'.  The scheme, after its leading spaces, is not the
\* name of a scheme; or the authority (the domain up to its first '/', '\',
\* '?' or '#') has an empty host, a host with a space, '<', '>', '^' or
\* '|', a host with a label that is the bare Punycode prefix, a host whose
\* last label looks like a number while the host has more than four labels
\* or a label that writes no number, or a port that is no decimal number up
\* to 65535.
NotAUrl(scheme, domain) ==
    LET authority == SubSeq(domain, 1, FindChar(domain, "/\\?#", 1) - 1)
        colon     == FindChar(authority, ":", 1)
        host      == to_ascii_lowercase(SubSeq(authority, 1, colon - 1))
        port      == SubSeq(authority, colon + 1, Len(authority))
        labels    == split_dots(host)
    IN  \/ ~IsSchemeName(trim_start(scheme))
        \/ host = ""
        \/ \E i \in 1..Len(host) : CharAt(host, i) \in Chars(" <>^|")
        \/ \E i \in 1..Len(labels) : labels[i] = "xn--"
        \/ /\ \A i \in 1..Len(labels) : labels[i] # ""
           /\ LooksNumeric(labels[Len(labels)])
           /\ \/ Len(labels) > 4
              \/ \E i \in 1..Len(labels) : ~WritesNumber(labels[i])
        \/ \E i \in 1..Len(port) : ~IsDigit(CharAt(port, i))
        \/ /\ port # ""
           /\ parse_decimal(port, <<0, 0>>)[1] > 0

C16_AbsentCounts ==
    decoded # None =>
        LET b == body.val
            r == decoded.val
        IN  /\ (/\ b.t = "obj"
                /\ DOMAIN b.obj = {"data"}
                /\ b.obj["data"] = JArr(<<>>)) =>
                   /\ r.ok
                   /\ r.val.data = <<>>
                   /\ r.val.total_count = None
                   /\ r.val.count = None
            /\ r.ok =>
                   /\ "totalCount" \notin DOMAIN b.obj => r.val.total_count = None
                   /\ "count" \notin DOMAIN b.obj => r.val.count = None
                   /\ r.val.total_count = Some(0) <=> member(b, "totalCount") = Some(JNum(0))
                   /\ r.val.count = Some(0) <=> member(b, "count") = Some(JNum(0))

\* The body {"data": []}, decoded.
C16_Witness ==
    /\ decoded # None
    /\ body.val = JObj("data" :> JArr(<<>>))
    /\ decoded.val.ok
    /\ decoded.val.val.total_count = None

(***************************************************************************)
(* What the properties of the calls read.                                  *)
(***************************************************************************)
\* The request URL that the call c builds when it runs alone.
AloneRequest(c) ==
    IF c.op = "list" THEN list_request(c.endpoint, c.params)
    ELSE get_request(c.endpoint, c.id, c.profile, c.include, c.exclude)

TheClient ==
    Client_new_with_scheme("http", "127.0.0.1:8080", "testapp", "APIVersion::V2").val

(***************************************************************************)
(* C17.  When the remote service answers a list or get request with a      *)
(* status outside 200..299, the call returns an error to the caller and    *)
(* never a successful envelope.                                            *)
(***************************************************************************)
C17_StatusError ==
    \A t \in Tasks :
        (/\ tasks[t].pc = "done"
         /\ tasks[t].response # None
         /\ tasks[t].response.val.status \notin 200..299) =>
            ~tasks[t].result.val.ok

(***************************************************************************)
(* C18.  list and get return Ok(envelope) only if the URL was resolved,    *)
(* the GET was sent and answered, and the body decoded as ApiResponse<T>,  *)
(* and the envelope is then the decoded one; a failure of the join, of the *)
(* transport or of the decoding is returned as an error, never replaced by *)
(* a default or empty envelope.                                            *)
(***************************************************************************)
C18_ErrorsPropagate ==
    \A t \in Tasks :
        tasks[t].pc = "done" =>
            LET k == tasks[t]
                r == k.result.val
            IN  /\ r.ok =>
                      /\ k.endpoint # None
                      /\ k.request # None
                      /\ k.sent = 1
                      /\ k.response # None
                      /\ ApiResponse_from_json(k.response.val.body).ok
                      /\ r.val = ApiResponse_from_json(k.response.val.body).val
                /\ k.endpoint = None => (~r.ok /\ r.err = "join" /\ k.sent = 0)
                /\ (k.endpoint # None /\ k.response = None) => (~r.ok /\ r.err = "send")
                /\ (k.response # None /\ k.response.val.body \in {ErrorBody, NotJson}) =>
                      (~r.ok /\ r.err = "json")

\* Two failures, each returned: a body that does not decode, and a join
\* that fails.
C18_Witness ==
    /\ tasks[1].pc = "done"
    /\ tasks[1].response # None
    /\ tasks[1].response.val.body = NotJson
    /\ tasks[1].result.val = Failure("json")
    /\ tasks[2].pc = "done"
    /\ tasks[2].result.val = Failure("join")

(***************************************************************************)
(* C19.  Each call of list or get sends at most one GET, whatever the      *)
(* outcome: none after a join that fails, one and no second one after a    *)
(* transport failure or a decode failure; a call starts without a response *)
(* and a returned call leaves none behind.                                 *)
(***************************************************************************)
C19_OneRequest ==
    \A t \in Tasks :
        LET k == tasks[t]
        IN  /\ k.sent <= 1
            /\ k.pc \in {"awaiting", "answered"} => k.sent = 1
            /\ k.pc \in {"idle", "joined", "built"} => (k.sent = 0 /\ k.response = None)
            /\ k.pc = "done" => k.sent = (IF k.endpoint = None THEN 0 ELSE 1)
            /\ k.pc = "idle" => k = IdleTask

\* A call that failed in transport and one whose body did not decode, each
\* after one request.
C19_Witness ==
    /\ tasks[1].pc = "done"
    /\ tasks[1].result.val = Failure("send")
    /\ tasks[1].sent = 1
    /\ tasks[2].pc = "done"
    /\ tasks[2].result.val = Failure("json")
    /\ tasks[2].sent = 1

(***************************************************************************)
(* C20.  For any interleaving of concurrent list and get calls on the same *)
(* Client, the request URL of each call is the URL the call builds when it *)
(* runs alone, each call receives the result of its own response, and the  *)
(* client's base URL and app_name are unchanged.  The URL is compared,     *)
(* when the request is built and when it is sent, for the calls on the     *)
(* client's own endpoints.                                                 *)
(***************************************************************************)
C20_Independent ==
    /\ client = TheClient
    /\ \A t \in Tasks :
          LET k == tasks[t]
          IN  /\ (k.pc \in {"built", "awaiting"} /\ k.call.val.endpoint \in Endpoints(client)) =>
                     k.request.val = AloneRequest(k.call.val)
              /\ k.pc \in {"built", "awaiting"} =>
                     query_pairs(k.request.val)[1] = <<"appname", client.app_name>>
              /\ (k.pc = "done" /\ k.response # None) =>
                     k.result.val.ok = ApiResponse_from_json(k.response.val.body).ok
              /\ (k.pc = "done" /\ k.result.val.ok) =>
                     k.result.val.val = ApiResponse_from_json(k.response.val.body).val

\* Two calls in flight at once with different requests, and two calls done
\* at once with different envelopes.
C20_Witness ==
    /\ tasks[1].pc = "done"
    /\ tasks[2].pc = "done"
    /\ tasks[1].result.val.ok
    /\ tasks[2].result.val.ok
    /\ tasks[1].result.val # tasks[2].result.val
    /\ tasks[1].request # tasks[2].request
    /\ tasks[1].call.val.op = "list"
    /\ tasks[2].call.val.op = "get"

(***************************************************************************)
(* C21.  A Query that no builder method was called on encodes to no pair:  *)
(* list(Some(&QueryParams::new())) builds the same request Url as          *)
(* list(None) on the same endpoint, and its query string is the single     *)
(* pair appname=<app_name>.                                                *)
(***************************************************************************)
C21_EmptyQuery ==
    (pc = "awaiting" /\ call.val.op = "list" /\ call.val.params = Some(QueryParams_new)) =>
        /\ request.val = list_request(call.val.endpoint, None)
        /\ Url_as_str(request.val) = Url_as_str(list_request(call.val.endpoint, None))
        /\ RequestPairs = <<<<"appname", client.app_name>>>>
        /\ Occurrences(request.val.query.val, "&") = 0

\* list(Some(empty Query)) on the jobs endpoint of a client whose name needs
\* escapes.
C21_Witness ==
    /\ pc = "awaiting"
    /\ call.val.op = "list"
    /\ call.val.params = Some(QueryParams_new)
    /\ call.val.endpoint.resource = "jobs"
    /\ client.app_name = "my app&x=1"
    /\ request.val.query = Some("appname=my+app%26x%3D1")

(***************************************************************************)
(* C22.  Every filter that carries an operator emits its own pair          *)
(* filter[conditions][i][operator] with its own operator, the filter whose *)
(* operator went into the top-level filter[operator] pair included, and a  *)
(* filter whose operator differs from the top-level one included; a filter *)
(* without an operator emits no per-condition operator pair.               *)
(***************************************************************************)
C22_OwnOperator ==
    Applied =>
        LET ps    == UrlPairs
            conds == WithPrefix(ps, "filter[conditions]")
            ops   == SelectSeq(conds, LAMBDA p : EndsWith(p[1], "[operator]"))
        IN  /\ \A i \in 1..Len(qp.filter) :
                   LET key == "filter[conditions][" \o ToString(i - 1) \o "][operator]"
                   IN  WithKey(ps, key) =
                           (IF is_some(qp.filter[i].operator)
                            THEN <<<<key, OperatorWord(qp.filter[i].operator.val)>>>>
                            ELSE <<>>)
            /\ Len(ops) = Len(WithOperator(qp.filter))
            /\ \A n \in 1..Len(ops) :
                   ops[n][2] = OperatorWord(WithOperator(qp.filter)[n].operator.val)

\* Two filters encoded, OR then AND: the top-level pair says OR, the first
\* condition repeats OR and the second says AND.
C22_Witness ==
    /\ Applied
    /\ Len(qp.filter) = 2
    /\ qp.filter[1].operator = Some("FilterOperator::OR")
    /\ qp.filter[2].operator = Some("FilterOperator::AND")
    /\ WithKey(UrlPairs, "filter[operator]") = <<<<"filter[operator]", "OR">>>>
    /\ WithKey(UrlPairs, "filter[conditions][0][operator]")
           = <<<<"filter[conditions][0][operator]", "OR">>>>
    /\ WithKey(UrlPairs, "filter[conditions][1][operator]")
           = <<<<"filter[conditions][1][operator]", "AND">>>>

(***************************************************************************)
(* C23.  The sort sequence is encoded as one pair per descriptor, in       *)
(* insertion order, each with the key sort[] (no index) and the value      *)
(* <field>:<direction>, the direction being the lowercase word asc or      *)
(* desc; there are as many sort[] pairs as descriptors.                    *)
(***************************************************************************)
C23_SortPairs ==
    Applied =>
        LET ps    == UrlPairs
            sorts == WithPrefix(ps, "sort")
        IN  /\ Len(sorts) = Len(qp.sort)
            /\ WithKey(ps, "sort[]") = sorts
            /\ \A i \in 1..Len(sorts) :
                   /\ sorts[i][1] = "sort[]"
                   /\ sorts[i][2] = qp.sort[i].field \o ":" \o DirectionWord(qp.sort[i].direction)
                   /\ \/ EndsWith(sorts[i][2], ":asc")
                      \/ EndsWith(sorts[i][2], ":desc")

\* Two descriptors encoded: date descending, then a field with a space
\* ascending.
C23_Witness ==
    /\ Applied
    /\ qp.sort = << [field |-> "date", direction |-> "SortDirection::Desc"],
                    [field |-> "a b", direction |-> "SortDirection::Asc"] >>
    /\ UrlPairs = << <<"sort[]", "date:desc">>, <<"sort[]", "a b:asc">> >>
    /\ url.val.query = Some("sort%5B%5D=date%3Adesc&sort%5B%5D=a+b%3Aasc")

(***************************************************************************)
(* C24.  Each include entry is encoded as one pair fields[include][]=path  *)
(* and each exclude entry as one pair fields[exclude][]=path, in insertion *)
(* order, duplicates kept, with all include pairs before all exclude       *)
(* pairs.                                                                  *)
(***************************************************************************)
C24_FieldPairs ==
    Applied =>
        LET ps       == UrlPairs
            includes == [i \in 1..Len(qp.include) |-> <<"fields[include][]", qp.include[i]>>]
            excludes == [i \in 1..Len(qp.exclude) |-> <<"fields[exclude][]", qp.exclude[i]>>]
        IN  /\ WithKey(ps, "fields[include][]") = includes
            /\ WithKey(ps, "fields[exclude][]") = excludes
            /\ WithPrefix(ps, "fields") = includes \o excludes

\* An include path and an exclude path encoded: the include pair comes
\* first.
C24_Witness ==
    /\ Applied
    /\ qp.include = <<"field+name">>
    /\ qp.exclude = <<"title">>
    /\ UrlPairs = << <<"fields[include][]", "field+name">>,
                     <<"fields[exclude][]", "title">> >>
    /\ url.val.query = Some("fields%5Binclude%5D%5B%5D=field%2Bname&fields%5Bexclude%5D%5B%5D=title")

(***************************************************************************)
(* C25.  Scalars are encoded as given: verbose Some(true) gives verbose=1  *)
(* and Some(false) gives verbose=0; limit and offset give the decimal      *)
(* digits of the u32 value, whatever the value, a limit above 1000         *)
(* included; profile gives minimal, full or list and preset gives minimal, *)
(* latest or analysis.  The encoder refuses no Query: whatever the values, *)
(* the call leaves a Url with these pairs.                                 *)
(***************************************************************************)
C25_Scalars ==
    Applied =>
      LET ps == UrlPairs
          Decimal(k, o) ==
              IF is_some(o)
              THEN /\ Len(WithKey(ps, k)) = 1
                   /\ LET digits == WithKey(ps, k)[1][2]
                      IN  /\ IsDecimal(digits)
                          /\ Len(digits) > 1 => CharAt(digits, 1) # "0"
                          /\ parse_decimal(digits, <<0, 0>>)
                                 = <<o.val \div 65536, o.val % 65536>>
              ELSE WithKey(ps, k) = <<>>
      IN  /\ url # None
          /\ qp.verbose = Some(TRUE) => WithKey(ps, "verbose") = <<<<"verbose", "1">>>>
          /\ qp.verbose = Some(FALSE) => WithKey(ps, "verbose") = <<<<"verbose", "0">>>>
          /\ Decimal("limit", qp.limit)
          /\ Decimal("offset", qp.offset)
          /\ is_some(qp.profile) =>
                 /\ WithKey(ps, "profile") = <<<<"profile", ProfileWord(qp.profile.val)>>>>
                 /\ ProfileWord(qp.profile.val) \in {"minimal", "full", "list"}
          /\ is_some(qp.preset) =>
                 /\ WithKey(ps, "preset") = <<<<"preset", PresetWord(qp.preset.val)>>>>
                 /\ PresetWord(qp.preset.val) \in {"minimal", "latest", "analysis"}

\* verbose false and a limit of 1001 encoded together.
C25_Witness ==
    /\ Applied
    /\ qp.verbose = Some(FALSE)
    /\ qp.limit = Some(1001)
    /\ UrlPairs = << <<"verbose", "0">>, <<"limit", "1001">> >>
    /\ url.val.query = Some("verbose=0&limit=1001")

(***************************************************************************)
(* C26.  Every builder call on a sequence field (query, queries, filter,   *)
(* filters, sort, include, exclude) leaves the field equal to what it was  *)
(* followed by the entries passed, in the order passed, nothing replaced,  *)
(* reordered or dropped as a duplicate; a builder call on one field, a     *)
(* sequence or a scalar, leaves every other field as it was.  By induction *)
(* each sequence field is the concatenation, in call order, of the entries *)
(* passed to its methods.                                                  *)
(***************************************************************************)
C26_BuilderAppends ==
    [][(call' # call \/ qp' # qp) =>
          LET m == call'.val
              field ==
                  CASE m.op \in {"query", "queries"}  -> "query"
                    [] m.op \in {"filter", "filters"} -> "filter"
                    [] OTHER                           -> m.op
              Others == {"query", "filter", "verbose", "limit", "offset", "sort",
                         "profile", "preset", "include", "exclude"} \ {field}
          IN  /\ is_some(call')
              /\ \A f \in Others : qp'[f] = qp[f]
              /\ m.op \in {"query", "queries"} => qp'.query = qp.query \o m.clauses
              /\ m.op \in {"filter", "filters"} => qp'.filter = qp.filter \o m.conditions
              /\ m.op = "sort" => qp'.sort = qp.sort \o m.descriptors
              /\ m.op = "include" => qp'.include = qp.include \o m.paths
              /\ m.op = "exclude" => qp'.exclude = qp.exclude \o m.paths
              /\ m.op \in {"query", "filter"} => Len(qp'[field]) = Len(qp[field]) + 1
    ]_vars

\* include was called twice with the same path: the Query includes it twice.
C26_Witness ==
    /\ pc = "idle"
    /\ is_some(call)
    /\ call.val.op = "include"
    /\ call.val.paths = <<"title">>
    /\ qp.include = <<"title", "title">>
    /\ Size(qp) = 2

\* The step leaves every field of the Query as it was.
QueryUnchanged ==
    \A f \in {"query", "filter", "verbose", "limit", "offset", "sort",
              "profile", "preset", "include", "exclude"} : qp'[f] = qp[f]

(***************************************************************************)
(* C27.  Encoding is read-only and deterministic: the step that encodes a  *)
(* Query leaves every field of it as it was, and when the caller uses the  *)
(* Query it holds after that encoding a second time, in a request whose    *)
(* Url already carries the appname pair, the query string written after    *)
(* appname is, character for character, the one the first encoding wrote   *)
(* (so the ordered pairs are the same), and the Query is again left as it  *)
(* was.                                                                    *)
(***************************************************************************)
C27_ReadOnly ==
    /\ [][pc' = "applied" => QueryUnchanged]_vars
    /\ [][pc' = "reused" =>
            /\ QueryUnchanged
            /\ request'.val.query.val =
                   "appname=" \o byte_serialize(client.app_name)
                       \o (IF url.val.query.val = "" THEN ""
                           ELSE "&" \o url.val.query.val)]_vars

\* A Query with a filter and a sort descriptor, encoded onto the test's Url
\* and then used in a request: both hold its pairs.
C27_Witness ==
    /\ pc = "reused"
    /\ qp.filter # <<>>
    /\ qp.sort # <<>>
    /\ Len(pairs) >= 3
    /\ Len(query_pairs(request.val)) = Len(pairs) + 1
    /\ SubSeq(query_pairs(request.val), 2, Len(pairs) + 1) = pairs

(***************************************************************************)
(* C28.  No operation blocks indefinitely: every list or get call that has *)
(* started eventually completes, with an envelope or with an error, also   *)
(* when the remote service never answers the request.                      *)
(***************************************************************************)
C28_Completes ==
    \A t \in Tasks :
        (tasks[t].pc \in {"joined", "built", "awaiting", "answered"})
            ~> (tasks[t].pc = "done" /\ is_some(tasks[t].result))

(***************************************************************************)
(* What the properties of the decoder read in a body: which members an     *)
(* object holds, and whether every member it holds has the JSON type of    *)
(* its field (null counting as no value for an optional field).            *)
(***************************************************************************)
Present(v, k) == k \in DOMAIN v.obj

Given(v, k) == Present(v, k) /\ v.obj[k] # JNull

IsStr(x) == x.t = "str"

IsInt(x) == x.t = "num"

IsU32(x) == x.t = "num" /\ x.num >= 0

OptionalTyped(v, k, T(_)) == Given(v, k) => T(v.obj[k])

RequiredTyped(v, k, T(_)) == Present(v, k) => T(v.obj[k])

LinkTyped(x) == x.t = "obj" /\ RequiredTyped(x, "href", IsStr)

LinksTyped(x) ==
    x.t = "obj" /\ \A k \in {"self", "next", "prev"} : OptionalTyped(x, k, LinkTyped)

FieldsTyped(x) ==
    /\ x.t = "obj"
    /\ OptionalTyped(x, "id", IsInt)
    /\ OptionalTyped(x, "title", IsStr)
    /\ OptionalTyped(x, "status", IsStr)

ItemTyped(x) ==
    /\ x.t = "obj"
    /\ RequiredTyped(x, "id", IsStr)
    /\ OptionalTyped(x, "score", IsU32)
    /\ RequiredTyped(x, "fields", FieldsTyped)
    /\ OptionalTyped(x, "href", IsStr)

ItemsTyped(x) == x.t = "arr" /\ \A i \in 1..Len(x.arr) : ItemTyped(x.arr[i])

\* A JSON object whose members, as far as it holds them, are of the types
\* of the envelope.
BodyTyped(b) ==
    /\ b.t = "obj"
    /\ OptionalTyped(b, "href", IsStr)
    /\ OptionalTyped(b, "time", IsU32)
    /\ OptionalTyped(b, "links", LinksTyped)
    /\ OptionalTyped(b, "totalCount", IsU32)
    /\ OptionalTyped(b, "count", IsU32)
    /\ RequiredTyped(b, "data", ItemsTyped)

\* The body holds data, and every item holds id and fields.
HasDataIdFields(b) ==
    /\ Present(b, "data")
    /\ \A i \in 1..Len(b.obj["data"].arr) :
           Present(b.obj["data"].arr[i], "id") /\ Present(b.obj["data"].arr[i], "fields")

\* Every link the body holds under links has its href.
LinksHaveHref(b) ==
    Given(b, "links") =>
        \A k \in {"self", "next", "prev"} :
            Given(b.obj["links"], k) => Present(b.obj["links"].obj[k], "href")

\* In the decoded envelope r, every optional part that the body b lacks is
\* None: href, time, links, totalCount and count of the envelope, self, next
\* and prev of its links, score and href of each item.
AbsentIsNone(b, r) ==
    /\ ~Present(b, "href") => r.href = None
    /\ ~Present(b, "time") => r.time = None
    /\ ~Present(b, "links") => r.links = None
    /\ ~Present(b, "totalCount") => r.total_count = None
    /\ ~Present(b, "count") => r.count = None
    /\ Given(b, "links") =>
           /\ ~Present(b.obj["links"], "self") => r.links.val.self_ = None
           /\ ~Present(b.obj["links"], "next") => r.links.val.next = None
           /\ ~Present(b.obj["links"], "prev") => r.links.val.prev = None
    /\ Len(r.data) = Len(b.obj["data"].arr)
    /\ \A i \in 1..Len(r.data) :
           /\ ~Present(b.obj["data"].arr[i], "score") => r.data[i].score = None
           /\ ~Present(b.obj["data"].arr[i], "href") => r.data[i].href = None

(***************************************************************************)
(* C29.  In the envelope decoder the only required parts are the top-level *)
(* data array and, per item, id and fields: a body whose members have the  *)
(* types of the envelope decodes exactly when it holds data and every item *)
(* holds id and fields, and the absence of href, time, links, totalCount,  *)
(* count, or of an item's score or href, causes no decode error and yields *)
(* that field as absent.                                                   *)
(***************************************************************************)
C29_OnlyDataIdFields ==
    (decoded # None /\ BodyTyped(body.val)) =>
        /\ decoded.val.ok <=> HasDataIdFields(body.val)
        /\ decoded.val.ok => AbsentIsNone(body.val, decoded.val.val)

(***************************************************************************)
(* C29, amended.  The required parts are the data array, per item id and   *)
(* fields, and, per link that the body holds under links (self, next,      *)
(* prev), the link's href: a body without data, with an item lacking id or *)
(* fields, or with a link lacking href is a decode error, and a body whose *)
(* members have the types of the envelope, no key repeated, decodes when   *)
(* it holds all of these.  The absence of href, time, links, totalCount,   *)
(* count, of a link under links, or of an item's score or href, causes no  *)
(* decode error and yields that field as absent.                           *)
(***************************************************************************)
C29_RequiredParts ==
    (decoded # None /\ BodyTyped(body.val)) =>
        /\ decoded.val.ok <=> (HasDataIdFields(body.val) /\ LinksHaveHref(body.val))
        /\ decoded.val.ok => AbsentIsNone(body.val, decoded.val.val)

\* A body with data and one item that holds id and fields and nothing else:
\* it decodes, and every optional part is None.
C29_Witness ==
    /\ decoded # None
    /\ body.val = ShapedBody({"data", "item", "item.id", "item.fields"})
    /\ decoded.val.ok
    /\ decoded.val.val.href = None
    /\ decoded.val.val.links = None
    /\ decoded.val.val.data[1].score = None
    /\ decoded.val.val.data[1].href = None
    /\ decoded.val.val.data[1].id = "1"

====
